---- MODULE Spec2Model ----
(***************************************************************************)
(* A model of the JIT kernel dispatch runtime of libtriton_jit:            *)
(*   - the argument classifier (ArgHandle),                                *)
(*   - the JIT entry point (TritonJITFunctionImpl: get_instance,           *)
(*     operator(), get_kernel),                                            *)
(*   - the kernel handle (TritonKernelImpl: launch, lazy_init_handle),     *)
(*   - the backend registry (load_kernel, get_shared_memory,               *)
(*     launch_kernel).                                                     *)
(* Threads are host threads calling into the runtime; every step of a      *)
(* thread is one action.                                                   *)
(***************************************************************************)
EXTENDS Integers, Sequences, FiniteSets, TLC

\* ------------------------------------------------------------------------
\* Bounds of the model
\* ------------------------------------------------------------------------

\* Number of calls each of the concurrent threads makes.
MaxCalls == 1

\* Number of calls the single thread of the sequential specification makes.
SeqCalls == 3

\* Number of arguments of the packs the classifier is run on by itself.
MaxArgs == 2

\* ------------------------------------------------------------------------
\* Program constants
\* ------------------------------------------------------------------------

\* enum struct ArgType
NON_CONSTEXPR == 0
SPECIALIZED == 1
CONSTEXPR == 2

None == "none"

\* ------------------------------------------------------------------------
\* Argument classifier (struct ArgHandle)
\* ------------------------------------------------------------------------

\* Source arguments.  A tensor carries its dtype name and data address; a
\* plain scalar its C++ type and value; a c10::Scalar box its ScalarType tag
\* and whether it is symbolic; an optional either holds one of these or not.
Tensor(dtype, addr) == [kind |-> "tensor", dtype |-> dtype, addr |-> addr]
IntArg(ctype, v) == [kind |-> "int", ctype |-> ctype, val |-> v]
FloatArg(ctype, v) == [kind |-> "float", ctype |-> ctype, val |-> v]
ScalarBox(tp, symbolic, v) == [kind |-> "box", tp |-> tp, symbolic |-> symbolic, val |-> v]
Present(a) == [kind |-> "opt", has |-> TRUE, inner |-> a]
Absent == [kind |-> "opt", has |-> FALSE]

\* Whether the string literal ":1" that spec returns and the literal ":1"
\* that handle_specialized compares it with are one object in this build
\* (the language leaves it unspecified whether equal literals are merged).
VARIABLE literals_merged

\* The classifier's working state: the static-signature cursor, the three
\* output vectors and the error that stopped it ("" while none was thrown).
ArgHandleInit == [idx |-> 0, data_pointers |-> <<>>, kernel_args |-> <<>>,
                  signature |-> <<>>, err |-> ""]

Throw(h, e) == [h EXCEPT !.err = e]

\* const char* spec(v) for an address: ":16" for a multiple of 16.
spec_addr(v) == IF v % 16 = 0 THEN ":16" ELSE ""

\* const char* spec(v) for an integer: ":1" for the value 1, ":i32" for
\* another value that fits a signed 32-bit integer.
spec_int(v) == IF v = 1 THEN ":1"
               ELSE IF v >= -2147483647 - 1 /\ v <= 2147483647 THEN ":i32" ELSE ""

\* fmt::format("{}", item)
FormatValue(item) ==
    IF item.kind = "int" /\ item.ctype = "i1"
    THEN (IF item.val = 1 THEN "true" ELSE "false")
    ELSE ToString(item.val)

\* StaticSignature::at: std::vector::at, which throws past the end.
InRange(ssig, i) == i + 1 \in DOMAIN ssig.arg_type
At(ssig, i) == ssig.arg_type[i + 1]

\* A handle_tensor that asks for the specialization whatever the class is.
handle_tensor_any_class(ssig, h, item) ==
    IF ~InRange(ssig, h.idx) THEN Throw(h, "out_of_range")
    ELSE IF At(ssig, h.idx) = CONSTEXPR THEN Throw(h, "TORCH_CHECK")
    ELSE LET dp == Append(h.data_pointers, item.addr)
         IN [h EXCEPT !.data_pointers = dp,
                      !.kernel_args = Append(@, [to |-> "data_pointers", i |-> Len(dp)]),
                      !.signature = Append(@, "*" \o item.dtype \o spec_addr(item.addr))]

handle_tensor(ssig, h, item) ==
    IF ~InRange(ssig, h.idx) THEN Throw(h, "out_of_range")
    ELSE IF At(ssig, h.idx) = CONSTEXPR THEN Throw(h, "TORCH_CHECK")
    ELSE LET dp == Append(h.data_pointers, item.addr)
             specialization == IF At(ssig, h.idx) = SPECIALIZED
                               THEN spec_addr(item.addr) ELSE ""
         IN [h EXCEPT !.data_pointers = dp,
                      !.kernel_args = Append(@, [to |-> "data_pointers", i |-> Len(dp)]),
                      !.signature = Append(@, "*" \o item.dtype \o specialization)]

handle_constexpr(h, item) ==
    [h EXCEPT !.signature = Append(@, FormatValue(item))]

\* Line 160 compares two const char* values: the pointers differ unless
\* spec returned its ":1" literal and that literal is the one named here.
handle_specialized(h, item) ==
    IF item.kind = "int"
    THEN LET specialization == spec_int(item.val)
             differ == ~(specialization = ":1" /\ literals_merged)
         IN [h EXCEPT !.kernel_args = IF differ
                                      THEN Append(@, [to |-> "arg", val |-> item.val])
                                      ELSE @,
                      !.signature = Append(@, item.ctype \o specialization)]
    ELSE [h EXCEPT !.kernel_args = Append(@, [to |-> "arg", val |-> item.val]),
                   !.signature = Append(@, item.ctype)]

handle_non_constexpr(h, item) ==
    [h EXCEPT !.kernel_args = Append(@, [to |-> "arg", val |-> item.val]),
              !.signature = Append(@, item.ctype)]

\* A handle_arg_plain whose cursor stays where it is on std::nullopt.
handle_arg_plain_nullopt_free(ssig, h, item) ==
    LET r == IF item.kind = "tensor" THEN handle_tensor(ssig, h, item)
             ELSE IF item.kind = "nullopt" THEN [h EXCEPT !.signature = Append(@, "nullopt")]
             ELSE IF ~InRange(ssig, h.idx) THEN Throw(h, "out_of_range")
             ELSE IF At(ssig, h.idx) = CONSTEXPR THEN handle_constexpr(h, item)
             ELSE IF At(ssig, h.idx) = SPECIALIZED THEN handle_specialized(h, item)
             ELSE handle_non_constexpr(h, item)
    IN IF r.err # "" \/ item.kind = "nullopt" THEN r ELSE [r EXCEPT !.idx = @ + 1]

\* handle_arg_plain: a tensor, std::nullopt, or a scalar dispatched on the
\* class tag at the cursor; the cursor advances unless something threw.
handle_arg_plain(ssig, h, item) ==
    LET r == IF item.kind = "tensor" THEN handle_tensor(ssig, h, item)
             ELSE IF item.kind = "nullopt" THEN [h EXCEPT !.signature = Append(@, "nullopt")]
             ELSE IF ~InRange(ssig, h.idx) THEN Throw(h, "out_of_range")
             ELSE IF At(ssig, h.idx) = CONSTEXPR THEN handle_constexpr(h, item)
             ELSE IF At(ssig, h.idx) = SPECIALIZED THEN handle_specialized(h, item)
             ELSE handle_non_constexpr(h, item)
    IN IF r.err # "" THEN r ELSE [r EXCEPT !.idx = @ + 1]

\* A handle_scalar that rejects nothing: every box is taken for a Long.
handle_scalar_unchecked(ssig, h, item) ==
    handle_arg_plain(ssig, h, IntArg("i64", item.val))

\* handle_scalar: unwraps a c10::Scalar; symbolic boxes and the types other
\* than Bool, Long, UInt64 and Double are rejected.
handle_scalar(ssig, h, item) ==
    IF item.symbolic THEN Throw(h, "TORCH_CHECK")
    ELSE IF item.tp = "Bool" THEN handle_arg_plain(ssig, h, IntArg("i1", item.val))
    ELSE IF item.tp = "Long" THEN handle_arg_plain(ssig, h, IntArg("i64", item.val))
    ELSE IF item.tp = "UInt64" THEN handle_arg_plain(ssig, h, IntArg("u64", item.val))
    ELSE IF item.tp = "Double" THEN handle_arg_plain(ssig, h, FloatArg("fp64", item.val))
    ELSE Throw(h, "unsupported scalar type")

\* handle_arg for a value that is not an optional.
handle_value(ssig, h, item) ==
    IF item.kind = "box" THEN handle_scalar(ssig, h, item)
    ELSE handle_arg_plain(ssig, h, item)

\* A handle_optional that gives an absent optional a null payload slot.
handle_optional_null_slot(ssig, h, item) ==
    IF item.has THEN handle_value(ssig, h, item.inner)
    ELSE [h EXCEPT !.signature = Append(@, "nullopt"),
                   !.kernel_args = Append(@, [to |-> "arg", val |-> 0]),
                   !.idx = @ + 1]

handle_optional(ssig, h, item) ==
    IF item.has THEN handle_value(ssig, h, item.inner)
    ELSE handle_value(ssig, h, [kind |-> "nullopt"])

handle_arg(ssig, h, item) ==
    IF item.kind = "opt" THEN handle_optional(ssig, h, item)
    ELSE handle_value(ssig, h, item)

\* (handler.handle_arg(args), ...): left to right, stopping at the first throw.
RECURSIVE handle_args(_, _, _)
handle_args(ssig, h, args) ==
    IF args = <<>> \/ h.err # "" THEN h
    ELSE handle_args(ssig, handle_arg(ssig, h, Head(args)), Tail(args))

\* The signature vector joined with ",".
RECURSIVE JoinSignature(_)
JoinSignature(sig) ==
    IF sig = <<>> THEN ""
    ELSE IF Len(sig) = 1 THEN sig[1]
    ELSE sig[1] \o "," \o JoinSignature(Tail(sig))

\* kernel_args.data() as the launch reads it: each slot points at an
\* argument or at an element of data_pointers.
Payload(h) ==
    [i \in 1..Len(h.kernel_args) |->
        IF h.kernel_args[i].to = "arg" THEN h.kernel_args[i].val
        ELSE h.data_pointers[h.kernel_args[i].i]]

\* operator(), lines 275-278: the null global scratch pointer goes to
\* data_pointers and a slot for it to kernel_args.
push_global_scratch(h) ==
    LET dp == Append(h.data_pointers, 0)
    IN [h EXCEPT !.data_pointers = dp,
                 !.kernel_args = Append(@, [to |-> "data_pointers", i |-> Len(dp)])]

\* operator(), lines 261-285: classify, push the global scratch slot, join.
Classify(ssig, args) ==
    LET h == handle_args(ssig, ArgHandleInit, args)
    IN IF h.err # "" THEN h ELSE push_global_scratch(h)

\* ------------------------------------------------------------------------
\* Inputs of the runtime model
\* ------------------------------------------------------------------------

\* The static signature extract_static_signature returns for the modelled
\* entry point: a tensor and a scalar, both specialised.
StaticSig == [num_args |-> 2, arg_type |-> <<SPECIALIZED, SPECIALIZED>>]

\* Argument packs the callers pass: an aligned and an unaligned tensor with
\* a Long box, a pack whose box is symbolic and one whose box is complex.
PackAligned == <<Tensor("fp32", 32), ScalarBox("Long", FALSE, 7)>>
PackUnaligned == <<Tensor("fp32", 8), ScalarBox("Long", FALSE, 7)>>
PackSymbolic == <<Tensor("fp32", 32), ScalarBox("Long", TRUE, 7)>>
PackComplex == <<Tensor("fp32", 32), ScalarBox("ComplexDouble", FALSE, 7)>>
Packs == {PackAligned, PackUnaligned}
SeqPacks == {PackAligned, PackUnaligned, PackSymbolic, PackComplex}

\* Device indices the driver may report as current.
Devices == {0, 1}

\* The backends the runtime is instantiated for.
Backends == {"cuda", "npu"}

\* The host threads.
Threads == {"t1", "t2"}

\* compile_a_kernel's result: the artifact directory is content-addressed
\* by the signature, the warps, the stages and the device's architecture
\* (the modelled devices share one architecture).
ArtifactDir(sig, num_warps, num_stages, dev) ==
    "cache/" \o sig \o "/w" \o ToString(num_warps) \o "s" \o ToString(num_stages)

\* The num_warps and num_stages callers pass unless said otherwise.
UsualWarps == <<4, 3>>

\* ------------------------------------------------------------------------
\* State
\* ------------------------------------------------------------------------

VARIABLES
    backend,        \* the Backend template argument of this build
    entry_point,    \* the entry point's file_path_, function_name_ and static_sig_
    handler,        \* an ArgHandle run on its own: its inputs and its state
    arg_buffer,     \* an NpuArgBuffer being filled: its inputs and its state
    ctor,           \* a constructor converting the list of extract_static_signature
    loader,         \* CudaBackend::load_kernel on its own: its inputs and its state
    parser,         \* parse_signature on its own: its input and its state
    dims,           \* the dimensions of one launch on their way to the driver
    functions_,     \* TritonJITFunctionImpl::functions_: key -> entry address
    overloads_,     \* the entry's overloads_: key -> TritonKernelImpl
    module_cache_,  \* Backend::module_cache_: dir -> ModuleData
    cache_mutex_,   \* Backend::cache_mutex_: the thread holding it
    gil,            \* the interpreter lock: the thread holding it
    registered_names_, \* NpuBackend::registered_names_[kernel_name]
    func_stubs_,    \* NpuBackend::func_stubs_: the stub names stored
    driver,         \* the vendor driver: dir -> modules it has loaded
    heap,           \* number of objects constructed so far (addresses)
    pc,             \* thread -> where it is
    loc,            \* thread -> locals of the call in progress
    budget,         \* thread -> calls it may still start
    last,           \* thread -> outcome of its last finished call
    compileCalls,   \* key -> compile_a_kernel calls made
    compiles,       \* key -> compile_a_kernel calls that succeeded
    loadCalls,      \* key -> load_kernel calls made for the key's handle
    loads,          \* dir -> driver load sequences completed
    extracts,       \* key -> extract_static_signature calls
    installs,       \* key -> addresses of the objects ever installed
    rejects         \* calls the classifier has rejected

buildVars == <<backend, entry_point, literals_merged>>
backendVars == <<module_cache_, registered_names_, func_stubs_, driver>>
lockVars == <<cache_mutex_, gil>>
countVars == <<compileCalls, compiles, loadCalls, loads, extracts, installs, rejects>>
soloVars == <<handler, arg_buffer, ctor, loader, parser, dims>>
runtimeVars == <<functions_, overloads_, heap, pc, loc, budget, last,
                 backendVars, lockVars, countVars>>
vars == <<buildVars, soloVars, functions_, overloads_, heap, pc, loc, budget, last,
          backendVars, lockVars, countVars>>

\* A counter kept in a map that grows: absent keys count as zero.
Count(f, k) == IF k \in DOMAIN f THEN f[k] ELSE 0
Inc(f, k) == [x \in DOMAIN f \cup {k} |-> IF x = k THEN Count(f, k) + 1 ELSE f[x]]
Put(f, k, v) == [x \in DOMAIN f \cup {k} |-> IF x = k THEN v ELSE f[x]]
SetAt(f, k) == IF k \in DOMAIN f THEN f[k] ELSE {}
EmptyMap == [x \in {} |-> 0]

\* An uninitialised KernelHandle member.
Uninit == "uninit"

NoLocals == [pack |-> <<>>, sig |-> "", payload |-> <<>>, dev |-> 0, key |-> None,
             num_warps |-> UsualWarps[1], num_stages |-> UsualWarps[2],
             h |-> 0, ret |-> Uninit, kernel |-> None, pending |-> {}, steps |-> {}]

NoResult == [pack |-> <<>>, sig |-> "", payload |-> <<>>, key |-> None, h |-> 0,
             kernel |-> None, steps |-> {}, err |-> "no call yet"]

\* The entry point of the modelled kernel.
FnKey == "add.py::binary_pointwise_kernel"

\* A key that leaves the device out.
OverloadKeyNoDevice(sig, dev) == sig \o ";"

\* std::string key = fmt::format("{};{}", signature, device_index)
OverloadKey(sig, dev) == sig \o ";" \o ToString(dev)

\* The call of thread t ends, by a return (err = "") or by an exception.
Finish(t, l, err) ==
    /\ pc' = [pc EXCEPT ![t] = "idle"]
    /\ last' = [last EXCEPT ![t] = [pack |-> l.pack, sig |-> l.sig,
                                    payload |-> l.payload, key |-> l.key, h |-> l.h,
                                    kernel |-> l.kernel, steps |-> l.steps,
                                    err |-> err]]
    /\ loc' = [loc EXCEPT ![t] = NoLocals]

Goto(t, l, where) ==
    /\ pc' = [pc EXCEPT ![t] = where]
    /\ loc' = [loc EXCEPT ![t] = l]
    /\ UNCHANGED last

Did(l, step) == [l EXCEPT !.steps = @ \cup {step}]

\* ------------------------------------------------------------------------
\* TritonJITFunctionImpl::operator()
\* ------------------------------------------------------------------------

\* An operator() whose classifier drops the specializations once a kernel
\* is cached.
CallByCache(t, pack) ==
    /\ pc[t] = "idle"
    /\ budget[t] > 0
    /\ FnKey \in DOMAIN functions_
    /\ budget' = [budget EXCEPT ![t] = @ - 1]
    /\ LET ssig == IF DOMAIN overloads_ = {} THEN entry_point.static_sig_
                   ELSE [entry_point.static_sig_ EXCEPT !.arg_type = <<NON_CONSTEXPR, NON_CONSTEXPR>>]
           c == Classify(ssig, pack)
           l == [NoLocals EXCEPT !.pack = pack, !.steps = {"classify"}]
       IN IF c.err # ""
          THEN /\ Finish(t, l, c.err)
               /\ rejects' = rejects + 1
          ELSE /\ Goto(t, [l EXCEPT !.sig = JoinSignature(c.signature),
                                     !.payload = Payload(c)], "ensure_context")
               /\ UNCHANGED rejects
    /\ UNCHANGED <<buildVars, soloVars, functions_, overloads_, heap, backendVars, lockVars,
                   compileCalls, compiles, loadCalls, loads, extracts, installs>>

\* Lines 261-285: the classifier runs on the caller's stack; a throw ends
\* the call before anything shared is touched.
OperatorCall(t, pack, num_warps, num_stages) ==
    /\ pc[t] = "idle"
    /\ budget[t] > 0
    /\ FnKey \in DOMAIN functions_
    /\ budget' = [budget EXCEPT ![t] = @ - 1]
    /\ LET c == Classify(entry_point.static_sig_, pack)
           l == [NoLocals EXCEPT !.pack = pack, !.steps = {"classify"},
                                 !.num_warps = num_warps, !.num_stages = num_stages]
       IN IF c.err # ""
          THEN /\ Finish(t, l, c.err)
               /\ rejects' = rejects + 1
          ELSE /\ Goto(t, [l EXCEPT !.sig = JoinSignature(c.signature),
                                     !.payload = Payload(c)], "ensure_context")
               /\ UNCHANGED rejects
    /\ UNCHANGED <<buildVars, soloVars, functions_, overloads_, heap, backendVars, lockVars,
                   compileCalls, compiles, loadCalls, loads, extracts, installs>>

\* operator() called with the usual num_warps and num_stages.
Call(t, pack) == OperatorCall(t, pack, UsualWarps[1], UsualWarps[2])

\* launch_with_raw_args, lines 310-327: the caller supplies the signature
\* and the argument pointers; no classifier runs, and the call goes on as
\* operator() does from ensure_context.
LaunchWithRawArgs(t, full_signature, args) ==
    /\ pc[t] = "idle"
    /\ budget[t] > 0
    /\ FnKey \in DOMAIN functions_
    /\ budget' = [budget EXCEPT ![t] = @ - 1]
    /\ Goto(t, [NoLocals EXCEPT !.sig = full_signature, !.payload = args,
                                !.steps = {"raw"}], "ensure_context")
    /\ UNCHANGED <<buildVars, soloVars, functions_, overloads_, heap, backendVars, lockVars,
                   countVars>>

\* Line 288: Backend::ensure_context(), which throws when the driver cannot
\* give a context.
EnsureContext(t, ok) ==
    /\ pc[t] = "ensure_context"
    /\ IF ok
       THEN Goto(t, Did(loc[t], "ensure_context"), "get_device_index")
       ELSE Finish(t, Did(loc[t], "ensure_context"), "ensure_context failed")
    /\ UNCHANGED <<buildVars, soloVars, functions_, overloads_, heap, budget, backendVars,
                   lockVars, countVars>>

\* Line 289: Backend::get_device_index(): the device current in the
\* calling thread, or a throw.
GetDeviceIndex(t, ok, d) ==
    /\ pc[t] = "get_device_index"
    /\ IF ok
       THEN Goto(t, [Did(loc[t], "get_device_index") EXCEPT !.dev = d], "get_kernel")
       ELSE Finish(t, Did(loc[t], "get_device_index"), "get_device_index failed")
    /\ UNCHANGED <<buildVars, soloVars, functions_, overloads_, heap, budget, backendVars,
                   lockVars, countVars>>

\* ------------------------------------------------------------------------
\* TritonJITFunctionImpl::get_kernel
\* ------------------------------------------------------------------------

\* A get_kernel whose lookup never hits.
GetKernelNoLookup(t) ==
    /\ pc[t] = "get_kernel"
    /\ Goto(t, [Did(loc[t], "find") EXCEPT !.key = OverloadKey(loc[t].sig, loc[t].dev)],
            "gil_acquire")
    /\ UNCHANGED <<buildVars, soloVars, functions_, overloads_, heap, budget, backendVars,
                   lockVars, countVars>>

\* Lines 83-87: the key is built and looked up; no lock is held.
GetKernelFind(t) ==
    /\ pc[t] = "get_kernel"
    /\ LET key == OverloadKey(loc[t].sig, loc[t].dev)
           l == [Did(loc[t], "find") EXCEPT !.key = key]
       IN IF key \in DOMAIN overloads_
          THEN Goto(t, [l EXCEPT !.h = overloads_[key].addr], "lazy_init_handle")
          ELSE Goto(t, l, "gil_acquire")
    /\ UNCHANGED <<buildVars, soloVars, functions_, overloads_, heap, budget, backendVars,
                   lockVars, countVars>>

\* Line 91: py::gil_scoped_acquire.
GilAcquire(t) ==
    /\ pc[t] = "gil_acquire"
    /\ gil = None
    /\ gil' = t
    /\ Goto(t, loc[t], "compile")
    /\ UNCHANGED <<buildVars, soloVars, functions_, overloads_, heap, budget, backendVars,
                   cache_mutex_, countVars>>

\* A TritonKernelImpl that is born loaded.
NewKernelLoaded(addr, dir) ==
    [addr |-> addr, dir |-> dir, loaded_ |-> TRUE, kernel_handle_ |-> Uninit]

\* A get_kernel that installs a handle for the key before it compiles, and
\* leaves it there when the compilation fails.
CompileAfterInstall(t, ok) ==
    /\ pc[t] = "compile"
    /\ gil = t
    /\ compileCalls' = Inc(compileCalls, loc[t].key)
    /\ overloads_' = Put(overloads_, loc[t].key,
                         [addr |-> heap + 1, dir |-> "", loaded_ |-> FALSE,
                          kernel_handle_ |-> Uninit])
    /\ heap' = heap + 1
    /\ IF ok
       THEN /\ Goto(t, [Did(loc[t], "compile") EXCEPT !.h = heap + 1], "lazy_init_handle")
            /\ compiles' = Inc(compiles, loc[t].key)
       ELSE /\ Finish(t, Did(loc[t], "compile"), "CompilerError")
            /\ UNCHANGED compiles
    /\ gil' = None
    /\ UNCHANGED <<buildVars, soloVars, functions_, budget, backendVars,
                   cache_mutex_, loadCalls, loads, extracts, installs, rejects>>

\* Lines 93-110: compile_a_kernel under the interpreter lock.  A Python
\* exception is rethrown: the lock is released and the call ends.
Compile(t, ok) ==
    /\ pc[t] = "compile"
    /\ gil = t
    /\ compileCalls' = Inc(compileCalls, loc[t].key)
    /\ IF ok
       THEN /\ Goto(t, Did(loc[t], "compile"), "emplace")
            /\ compiles' = Inc(compiles, loc[t].key)
            /\ UNCHANGED gil
       ELSE /\ Finish(t, Did(loc[t], "compile"), "CompilerError")
            /\ gil' = None
            /\ UNCHANGED compiles
    /\ UNCHANGED <<buildVars, soloVars, functions_, overloads_, heap, budget, backendVars,
                   cache_mutex_, loadCalls, loads, extracts, installs, rejects>>

\* A TritonKernelImpl as constructed at line 112 (loaded_ false,
\* kernel_handle_ not initialised), stored at address addr.
NewKernel(addr, dir) ==
    [addr |-> addr, dir |-> dir, loaded_ |-> FALSE, kernel_handle_ |-> Uninit]

\* An insert_or_assign in the place of emplace: the handle of a key that is
\* present is replaced.
EmplaceAssign(t) ==
    /\ pc[t] = "emplace"
    /\ gil = t
    /\ LET key == loc[t].key
           k == NewKernel(heap + 1, ArtifactDir(loc[t].sig, loc[t].num_warps, loc[t].num_stages,
                                              loc[t].dev))
       IN /\ heap' = heap + 1
          /\ overloads_' = Put(overloads_, key, k)
          /\ installs' = Put(installs, key, SetAt(installs, key) \cup {k.addr})
          /\ Goto(t, [Did(loc[t], "emplace") EXCEPT !.h = k.addr], "lazy_init_handle")
    /\ gil' = None
    /\ UNCHANGED <<buildVars, soloVars, functions_, budget, backendVars, cache_mutex_,
                   compileCalls, compiles, loadCalls, loads, extracts, rejects>>

\* Lines 111-121: the handle is constructed and emplaced; emplace inserts
\* nothing when the key is present, and get_kernel then throws.
Emplace(t) ==
    /\ pc[t] = "emplace"
    /\ gil = t
    /\ LET key == loc[t].key
           k == NewKernel(heap + 1, ArtifactDir(loc[t].sig, loc[t].num_warps, loc[t].num_stages,
                                              loc[t].dev))
       IN /\ heap' = heap + 1
          /\ IF key \notin DOMAIN overloads_
             THEN /\ overloads_' = Put(overloads_, key, k)
                  /\ installs' = Put(installs, key, SetAt(installs, key) \cup {k.addr})
                  /\ Goto(t, [Did(loc[t], "emplace") EXCEPT !.h = k.addr], "lazy_init_handle")
             ELSE /\ UNCHANGED <<overloads_, installs>>
                  /\ Finish(t, Did(loc[t], "emplace"), "Unable to emplace")
    /\ gil' = None
    /\ UNCHANGED <<buildVars, soloVars, functions_, budget, backendVars, cache_mutex_,
                   compileCalls, compiles, loadCalls, loads, extracts, rejects>>

\* ------------------------------------------------------------------------
\* TritonKernelImpl::lazy_init_handle and Backend::load_kernel
\* ------------------------------------------------------------------------

\* The handle a call works on: the object its key maps to.
Kernel(t) == overloads_[loc[t].key]

\* lazy_init_handle, line 145: loaded_ is read without any lock.
LazyInitCheck(t) ==
    /\ pc[t] = "lazy_init_handle"
    /\ IF Kernel(t).loaded_
       THEN /\ Goto(t, Did(loc[t], "loaded"), "get_shared_memory")
            /\ UNCHANGED loadCalls
       ELSE /\ Goto(t, Did(loc[t], "load_kernel"), "load_lock")
            /\ loadCalls' = Inc(loadCalls, loc[t].key)
    /\ UNCHANGED <<buildVars, soloVars, functions_, overloads_, heap, budget, backendVars,
                   lockVars, compileCalls, compiles, loads, extracts, installs,
                   rejects>>

\* A load_kernel that does not wait for cache_mutex_.
LoadNoLock(t) ==
    /\ pc[t] = "load_lock"
    /\ cache_mutex_' = t
    /\ Goto(t, loc[t], "load_find")
    /\ UNCHANGED <<buildVars, soloVars, functions_, overloads_, heap, budget, backendVars,
                   gil, countVars>>

\* load_kernel: std::lock_guard<std::mutex> lock(cache_mutex_).
LoadLock(t) ==
    /\ pc[t] = "load_lock"
    /\ cache_mutex_ = None
    /\ cache_mutex_' = t
    /\ Goto(t, loc[t], "load_find")
    /\ UNCHANGED <<buildVars, soloVars, functions_, overloads_, heap, budget, backendVars,
                   gil, countVars>>

\* A load_kernel that returns with cache_mutex_ still locked.
LoadReturnLocked(t, v) ==
    /\ UNCHANGED cache_mutex_
    /\ Goto(t, [loc[t] EXCEPT !.ret = v, !.pending = {"kernel_handle_", "loaded_"}],
            "store")

\* load_kernel returns v: the guard is destroyed, and lazy_init_handle has
\* its two member stores left to do.
LoadReturn(t, v) ==
    /\ cache_mutex_' = None
    /\ Goto(t, [loc[t] EXCEPT !.ret = v, !.pending = {"kernel_handle_", "loaded_"}],
            "store")

\* A lazy_init_handle that swallows load_kernel's exception and goes on.
LoadThrowSwallowed(t, err) ==
    /\ cache_mutex_' = None
    /\ Goto(t, loc[t], "get_shared_memory")

\* A load_kernel whose exception leaves cache_mutex_ locked.
LoadThrowLocked(t, err) ==
    /\ UNCHANGED cache_mutex_
    /\ Finish(t, loc[t], err)

\* load_kernel throws: the guard is destroyed and the exception leaves
\* lazy_init_handle, launch and operator().
LoadThrow(t, err) ==
    /\ cache_mutex_' = None
    /\ Finish(t, loc[t], err)

\* load_kernel, "Check cache first": a hit returns the cached function.
LoadFind(t) ==
    /\ pc[t] = "load_find"
    /\ LET dir == Kernel(t).dir
       IN IF dir \in DOMAIN module_cache_
          THEN LoadReturn(t, module_cache_[dir].fn)
          ELSE /\ Goto(t, loc[t], "driver_load")
               /\ UNCHANGED cache_mutex_
    /\ UNCHANGED <<buildVars, soloVars, functions_, overloads_, heap, budget, backendVars,
                   gil, countVars>>

\* The n-th module the driver loads from dir, and its function.
Module(dir, n) == dir \o "#" \o ToString(n)

\* What the files and the driver can do to a load: succeed, fail before
\* the module is loaded (metadata, architecture, binary file), or fail
\* after it (function lookup, shared memory, function registration).
LoadOutcomes == {"ok", "early", "late"}

\* CudaBackend::load_kernel after a cache miss; the module belongs to the
\* context of the device current in the calling thread.
CudaLoadKernel(t, outcome) ==
    /\ pc[t] = "driver_load"
    /\ backend = "cuda"
    /\ LET dir == Kernel(t).dir
           m == Module(dir, Count(driver, dir) + 1)
       IN CASE outcome = "early" ->
                 /\ LoadThrow(t, "load failed")
                 /\ UNCHANGED <<driver, module_cache_, loads>>
            [] outcome = "late" ->
                 /\ driver' = Inc(driver, dir)
                 /\ LoadThrow(t, "load failed")
                 /\ UNCHANGED <<module_cache_, loads>>
            [] outcome = "ok" ->
                 /\ driver' = Inc(driver, dir)
                 /\ module_cache_' = Put(module_cache_, dir,
                                         [module |-> m, fn |-> m, layout |-> FALSE,
                                          device |-> loc[t].dev])
                 /\ loads' = Inc(loads, dir)
                 /\ LoadReturn(t, m)
    /\ UNCHANGED <<buildVars, soloVars, functions_, overloads_, heap, budget, gil,
                   registered_names_, func_stubs_, compileCalls, compiles,
                   loadCalls, extracts, installs, rejects>>

\* stubName = kernel_name + "_" + to_string(registered_names_[kernel_name])
StubName(n) == "stub_" \o ToString(n)

\* NpuBackend::load_kernel after a cache miss; layout tells whether the
\* metadata file carries an arg_layout.
NpuLoadKernel(t, outcome, layout) ==
    /\ pc[t] = "driver_load"
    /\ backend = "npu"
    /\ LET dir == Kernel(t).dir
           m == Module(dir, Count(driver, dir) + 1)
           stub == StubName(registered_names_)
       IN CASE outcome = "early" ->
                 /\ LoadThrow(t, "load failed")
                 /\ UNCHANGED <<driver, module_cache_, loads, registered_names_,
                                func_stubs_>>
            [] outcome = "late" ->
                 /\ driver' = Inc(driver, dir)
                 /\ registered_names_' = registered_names_ + 1
                 /\ func_stubs_' = func_stubs_ \cup {stub}
                 /\ LoadThrow(t, "load failed")
                 /\ UNCHANGED <<module_cache_, loads>>
            [] outcome = "ok" ->
                 /\ driver' = Inc(driver, dir)
                 /\ registered_names_' = registered_names_ + 1
                 /\ func_stubs_' = func_stubs_ \cup {stub}
                 /\ module_cache_' = Put(module_cache_, dir,
                                         [module |-> m, fn |-> stub, layout |-> layout,
                                          device |-> loc[t].dev])
                 /\ loads' = Inc(loads, dir)
                 /\ LoadReturn(t, stub)
    /\ UNCHANGED <<buildVars, soloVars, functions_, overloads_, heap, budget, gil,
                   compileCalls, compiles, loadCalls, extracts, installs, rejects>>

\* lazy_init_handle, lines 150-151: kernel_handle_ = <returned>; loaded_ =
\* true.  Two plain stores to members other threads read without a lock:
\* they become visible to the other threads in either order.
Store(t, member) ==
    /\ pc[t] = "store"
    /\ member \in loc[t].pending
    /\ overloads_' = [overloads_ EXCEPT ![loc[t].key] =
                        IF member = "loaded_"
                        THEN [@ EXCEPT !.loaded_ = TRUE]
                        ELSE [@ EXCEPT !.kernel_handle_ = loc[t].ret]]
    /\ LET l == [loc[t] EXCEPT !.pending = @ \ {member}]
       IN Goto(t, l, IF l.pending = {} THEN "get_shared_memory" ELSE "store")
    /\ UNCHANGED <<buildVars, soloVars, functions_, heap, budget, backendVars, lockVars,
                   countVars>>

\* ------------------------------------------------------------------------
\* get_shared_memory, get_kernel_metadata and launch_kernel
\* ------------------------------------------------------------------------

\* Backend::get_shared_memory: a lookup under cache_mutex_.
GetSharedMemory(t) ==
    /\ pc[t] = "get_shared_memory"
    /\ cache_mutex_ = None
    /\ Goto(t, Did(loc[t], "get_shared_memory"), "launch_kernel")
    /\ UNCHANGED <<buildVars, soloVars, functions_, overloads_, heap, budget, backendVars,
                   lockVars, countVars>>

\* launch_with_signature: the kernel_handle_ member is read and passed to
\* Backend::launch_kernel.  TritonKernelImpl::launch passes the empty
\* signature, so NpuBackend::launch_kernel needs the arg_layout that
\* get_kernel_metadata finds (under cache_mutex_) in the module cache.
LaunchKernel(t, ok) ==
    /\ pc[t] = "launch_kernel"
    /\ backend = "npu" => cache_mutex_ = None
    /\ LET k == Kernel(t)
           l == [Did(loc[t], "launch_kernel") EXCEPT !.kernel = k.kernel_handle_]
           layout == k.dir \in DOMAIN module_cache_ /\ module_cache_[k.dir].layout
       IN IF backend = "npu" /\ ~layout
          THEN Finish(t, l, "no signature or arg_layout provided")
          ELSE IF ok THEN Finish(t, l, "") ELSE Finish(t, l, "launch failed")
    /\ UNCHANGED <<buildVars, soloVars, functions_, overloads_, heap, budget, backendVars,
                   lockVars, countVars>>

\* ------------------------------------------------------------------------
\* TritonJITFunctionImpl::get_instance
\* ------------------------------------------------------------------------

\* The entry points callers ask for.
FnKeys == {FnKey, "add.py::other_kernel"}

\* Lines 215-218: the key is built and looked up; no lock is held.
GetInstance(t, key) ==
    /\ pc[t] = "idle"
    /\ budget[t] > 0
    /\ budget' = [budget EXCEPT ![t] = @ - 1]
    /\ LET l == [NoLocals EXCEPT !.key = key, !.steps = {"find"}]
       IN IF key \in DOMAIN functions_
          THEN Finish(t, [l EXCEPT !.h = functions_[key]], "")
          ELSE Goto(t, l, "construct_gil")
    /\ UNCHANGED <<buildVars, soloVars, functions_, overloads_, heap, backendVars, lockVars,
                   countVars>>

\* The constructor, line 51: py::gil_scoped_acquire.
ConstructGil(t) ==
    /\ pc[t] = "construct_gil"
    /\ gil = None
    /\ gil' = t
    /\ Goto(t, loc[t], "construct")
    /\ UNCHANGED <<buildVars, soloVars, functions_, overloads_, heap, budget, backendVars,
                   cache_mutex_, countVars>>

\* The constructor, lines 53-71: extract_static_signature is called; a
\* Python exception leaves the constructor and get_instance.
Construct(t, ok) ==
    /\ pc[t] = "construct"
    /\ gil = t
    /\ gil' = None
    /\ extracts' = Inc(extracts, loc[t].key)
    /\ IF ok
       THEN /\ heap' = heap + 1
            /\ Goto(t, [Did(loc[t], "construct") EXCEPT !.h = heap + 1], "fn_emplace")
       ELSE /\ UNCHANGED heap
            /\ Finish(t, Did(loc[t], "construct"), "extract_static_signature failed")
    /\ UNCHANGED <<buildVars, soloVars, functions_, overloads_, budget, backendVars,
                   cache_mutex_, compileCalls, compiles, loadCalls, loads,
                   installs, rejects>>

\* Lines 219-222: emplace inserts nothing when the key is present (the
\* object just built is destroyed), and functions_.at(key) is returned.
FnEmplace(t) ==
    /\ pc[t] = "fn_emplace"
    /\ LET key == loc[t].key
           f == IF key \in DOMAIN functions_ THEN functions_
                ELSE Put(functions_, key, loc[t].h)
       IN /\ functions_' = f
          /\ installs' = Put(installs, key, SetAt(installs, key) \cup {f[key]})
          /\ Finish(t, [Did(loc[t], "emplace") EXCEPT !.h = f[key]], "")
    /\ UNCHANGED <<buildVars, soloVars, overloads_, heap, budget, backendVars, lockVars,
                   compileCalls, compiles, loadCalls, loads, extracts, rejects>>

\* ------------------------------------------------------------------------
\* Specifications
\* ------------------------------------------------------------------------

\* The state after static initialisation: empty caches, free locks; the
\* entry points in F have been obtained (at addresses 1, 2, ...) and each
\* thread in T may make n calls on a build for one of the backends in B.
RuntimeInit(T, n, B, F) ==
    /\ backend \in B
    /\ entry_point = [file_path_ |-> "add.py", function_name_ |-> "binary_pointwise_kernel",
                      static_sig_ |-> StaticSig]
    /\ literals_merged \in BOOLEAN
    /\ functions_ = [k \in F |-> 1]
    /\ overloads_ = EmptyMap
    /\ module_cache_ = EmptyMap
    /\ cache_mutex_ = None
    /\ gil = None
    /\ registered_names_ = 0
    /\ func_stubs_ = {}
    /\ driver = EmptyMap
    /\ heap = Cardinality(F)
    /\ pc = [t \in Threads |-> "idle"]
    /\ loc = [t \in Threads |-> NoLocals]
    /\ budget = [t \in Threads |-> IF t \in T THEN n ELSE 0]
    /\ last = [t \in Threads |-> NoResult]
    /\ compileCalls = EmptyMap
    /\ compiles = EmptyMap
    /\ loadCalls = EmptyMap
    /\ loads = EmptyMap
    /\ extracts = EmptyMap
    /\ installs = EmptyMap
    /\ rejects = 0

\* No ArgHandle is being run on its own.
NoHandler == [ssig |-> StaticSig, args |-> <<>>, rest |-> <<>>, h |-> ArgHandleInit,
              prev |-> ArgHandleInit, item |-> Absent]

\* No NpuArgBuffer is being filled.
NoBuffer == [layout |-> <<>>, args |-> <<>>, grid |-> <<0, 0, 0>>, stage |-> "none",
             size |-> 0, buf |-> [cursor_ |-> 0, buffer_size |-> 0, buffer_ |-> {}]]

\* No constructor is converting a list.
NoCtor == [arg_types_raw |-> <<>>, rest |-> <<>>, num_args |-> 0, arg_types |-> <<>>,
           stage |-> "none", static_sig_ |-> [num_args |-> 0, arg_type |-> <<>>]]

\* A CUfunction nothing has been configured on.
FreshKernel == [cache_config |-> "none", max_dynamic |-> [set |-> FALSE, val |-> 0]]

\* No load_kernel is running on its own.
NoLoader == [env |-> [file_ok |-> TRUE], stage |-> "none", calls |-> 0, err |-> "",
             kernel |-> FreshKernel, module_loads |-> 0, configured |-> FALSE]

\* No parse_signature is running on its own.
NoParser == [tokens |-> <<>>, sig |-> <<>>, ss |-> <<>>, layout |-> <<>>, stage |-> "none"]

\* No launch is followed on its own.
NoDims == [grid |-> <<>>, num_warps |-> <<>>, stage |-> "none", passed |-> <<>>,
           blockNum |-> <<>>]

InitWith(T, n, B, F) ==
    /\ RuntimeInit(T, n, B, F)
    /\ handler = NoHandler
    /\ arg_buffer = NoBuffer
    /\ ctor = NoCtor
    /\ loader = NoLoader
    /\ parser = NoParser
    /\ dims = NoDims

\* One step of a call of operator() by thread t with a pack from P.
CallStep(t, P) ==
    \/ \E pack \in P : Call(t, pack)
    \/ \E ok \in BOOLEAN : EnsureContext(t, ok)
    \/ \E ok \in BOOLEAN, d \in Devices : GetDeviceIndex(t, ok, d)
    \/ GetKernelFind(t)
    \/ GilAcquire(t)
    \/ \E ok \in BOOLEAN : Compile(t, ok)
    \/ Emplace(t)
    \/ LazyInitCheck(t)
    \/ LoadLock(t)
    \/ LoadFind(t)
    \/ \E o \in LoadOutcomes : CudaLoadKernel(t, o)
    \/ \E o \in LoadOutcomes, layout \in BOOLEAN : NpuLoadKernel(t, o, layout)
    \/ \E m \in {"kernel_handle_", "loaded_"} : Store(t, m)
    \/ GetSharedMemory(t)
    \/ \E ok \in BOOLEAN : LaunchKernel(t, ok)

\* Concurrent callers of one entry point.
Init == InitWith(Threads, MaxCalls, Backends, {FnKey})
Next == \E t \in Threads : CallStep(t, Packs)
Spec == Init /\ [][Next]_vars

\* Concurrent callers that pass the same arguments: their handles refer to
\* one artifact directory, on one device or on two.
LoadInit == InitWith(Threads, MaxCalls, Backends, {FnKey})
LoadNext == \E t \in Threads : CallStep(t, {PackAligned})
LoadSpec == LoadInit /\ [][LoadNext]_vars

\* One thread calling one entry point again and again.
SeqInit == InitWith({"t1"}, SeqCalls, Backends, {FnKey})
SeqNext == CallStep("t1", SeqPacks)
SeqSpec == SeqInit /\ [][SeqNext]_vars

\* What callers of launch_with_raw_args pass: the signature and the payload
\* operator() builds for a pack.
RawCall(pack) ==
    LET c == Classify(StaticSig, pack)
    IN [sig |-> JoinSignature(c.signature), args |-> Payload(c)]

\* One step of a call through either entry point by thread t.
EntryStep(t, P) ==
    \/ CallStep(t, P)
    \/ \E pack \in P : LaunchWithRawArgs(t, RawCall(pack).sig, RawCall(pack).args)

\* One thread calling through the two entry points, one call after another.
RawInit == InitWith({"t1"}, SeqCalls, Backends, {FnKey})
RawNext == EntryStep("t1", Packs)
RawSpec == RawInit /\ [][RawNext]_vars

\* Concurrent callers through the two entry points; every thread that can
\* take a step eventually takes one (the compiler and the driver return).
LiveInit == InitWith(Threads, MaxCalls, Backends, {FnKey})
LiveNext == \E t \in Threads : EntryStep(t, {PackAligned})
LiveSpec == LiveInit /\ [][LiveNext]_vars
               /\ \A t \in Threads : WF_vars(EntryStep(t, {PackAligned}))

\* One step of a call of get_instance by thread t.
RegStep(t) ==
    \/ \E key \in FnKeys : GetInstance(t, key)
    \/ ConstructGil(t)
    \/ \E ok \in BOOLEAN : Construct(t, ok)
    \/ FnEmplace(t)

\* Concurrent callers of get_instance, nothing registered yet.
RegInit == InitWith(Threads, MaxCalls + 1, {"cuda"}, {})
RegNext == \E t \in Threads : RegStep(t)
RegSpec == RegInit /\ [][RegNext]_vars

\* A pack with one argument for the two parameters of StaticSig.
PackShort == <<Tensor("fp32", 32)>>

\* One thread calling with as many arguments as the static signature has
\* parameters, or with fewer.
ArityInit == InitWith({"t1"}, MaxCalls + 1, Backends, {FnKey})
ArityNext == CallStep("t1", {PackShort, PackAligned})
AritySpec == ArityInit /\ [][ArityNext]_vars

\* Concurrent callers that fetch the entry point with get_instance and call
\* it: both Compiler Bridge calls and the backend's loads in one run.
BridgeInit == InitWith(Threads, MaxCalls + 1, Backends, {})
BridgeNext == \E t \in Threads : RegStep(t) \/ CallStep(t, {PackAligned})
BridgeSpec == BridgeInit /\ [][BridgeNext]_vars

\* ------------------------------------------------------------------------
\* The classifier on its own
\* ------------------------------------------------------------------------

\* The arguments the classifier is given.
Scalars == {IntArg("i64", 1), IntArg("i64", 7), IntArg("i32", 1),
            IntArg("i1", 1), FloatArg("fp32", 1),
            ScalarBox("Long", FALSE, 1), ScalarBox("Double", FALSE, 1)}
Tensors == {Tensor("fp32", 32), Tensor("fp32", 8)}
Items == Scalars \cup Tensors \cup {Absent}
           \cup {Present(v) : v \in {IntArg("i64", 1), IntArg("i64", 7),
                                     FloatArg("fp32", 1), Tensor("fp32", 32),
                                     ScalarBox("Long", FALSE, 1)}}

\* The static signatures of MaxArgs parameters and of one fewer: nothing
\* ties the length of the pack of operator() to the number of class tags.
StaticSigs == {[num_args |-> Len(a), arg_type |-> a] :
                  a \in UNION {[1..k -> {NON_CONSTEXPR, SPECIALIZED, CONSTEXPR}] :
                                  k \in {MaxArgs - 1, MaxArgs}}}

\* The inline capacity of a c10::SmallVector<void*>, which is the
\* library's to choose: one that num_args reaches, and one that holds every
\* pack here with its scratch pointer.
InlineCapacities == {1, MaxArgs + 1}

\* data_pointers.reserve(num_args): the capacity afterwards.
reserve(inline, num_args) == IF num_args > inline THEN num_args ELSE inline

\* The kernel_args slots that point at elements data_pointers no longer
\* holds: a push_back beyond the capacity moves the elements to new storage,
\* and the slots made before it keep the old addresses.
DanglingSlots(h, capacity) ==
    IF Len(h.data_pointers) <= capacity THEN {}
    ELSE {i \in 1..Len(h.kernel_args) :
            h.kernel_args[i].to = "data_pointers" /\ h.kernel_args[i].i <= capacity}

\* An ArgHandle over a static signature, about to handle a pack.
ClassifyInit ==
    /\ RuntimeInit({}, 0, {"cuda"}, {FnKey})
    /\ arg_buffer = NoBuffer
    /\ ctor = NoCtor
    /\ loader = NoLoader
    /\ parser = NoParser
    /\ dims = NoDims
    /\ handler \in {[ssig |-> s, args |-> a, rest |-> a, h |-> ArgHandleInit,
                     prev |-> ArgHandleInit, item |-> Absent,
                     capacity |-> reserve(n, s.num_args)] :
                       s \in StaticSigs, a \in [1..MaxArgs -> Items], n \in InlineCapacities}

\* One handle_arg of the fold (handler.handle_arg(args), ...).
HandleArg ==
    /\ handler.rest # <<>>
    /\ handler.h.err = ""
    /\ handler' = [handler EXCEPT
                     !.h = handle_arg(handler.ssig, handler.h, Head(handler.rest)),
                     !.prev = handler.h,
                     !.item = Head(handler.rest),
                     !.rest = Tail(handler.rest)]
    /\ UNCHANGED <<buildVars, arg_buffer, ctor, loader, parser, dims, runtimeVars>>

\* The marker of handler.item once the fold is over and the scratch slot
\* has been pushed.
Scratch == [kind |-> "scratch"]

\* operator(), lines 275-278, after a fold in which nothing threw.
PushScratch ==
    /\ handler.rest = <<>>
    /\ handler.h.err = ""
    /\ handler.item # Scratch
    /\ handler' = [handler EXCEPT !.h = push_global_scratch(handler.h),
                                  !.prev = handler.h,
                                  !.item = Scratch]
    /\ UNCHANGED <<buildVars, arg_buffer, ctor, loader, parser, dims, runtimeVars>>

ClassifyNext == HandleArg \/ PushScratch
ClassifySpec == ClassifyInit /\ [][ClassifyNext]_vars

\* ------------------------------------------------------------------------
\* Properties
\* ------------------------------------------------------------------------

\* C1: concurrent callers of one entry point with one (dyn_signature,
\* device_index) that is not cached have the compiler run once in total:
\* no key is ever compiled successfully twice.
C1_CompileOncePerKey ==
    \A k \in DOMAIN compiles : compiles[k] <= 1

\* C2: no caller of get_kernel fails because another caller installed the
\* handle for its key first.
C2_NoCallerFailsOnInstall ==
    \A t \in Threads : last[t].err # "Unable to emplace"

C4_OneHandlePerKey ==
    /\ \A k \in DOMAIN installs : Cardinality(installs[k]) <= 1
    /\ \A k \in DOMAIN compiles : compiles[k] <= 1
    /\ \A t \in Threads :
         /\ last[t].h # 0 =>
              /\ last[t].key \in DOMAIN overloads_
              /\ overloads_[last[t].key].addr = last[t].h
              /\ installs[last[t].key] = {last[t].h}
         /\ loc[t].h # 0 =>
              /\ loc[t].key \in DOMAIN overloads_
              /\ overloads_[loc[t].key].addr = loc[t].h

\* C4 happens: a call found the handle a previous call installed and
\* launched it without compiling.
C4_CacheHitLaunched ==
    /\ pc["t1"] = "idle"
    /\ last["t1"].err = ""
    /\ "launch_kernel" \in last["t1"].steps
    /\ "compile" \notin last["t1"].steps
    /\ Count(compiles, last["t1"].key) = 1

\* C5: get_instance never builds a second entry-point object for a
\* (path, name) that already has one, so extract_static_signature runs once.
C5_OneEntryBuilt ==
    \A t \in Threads :
      (pc[t] = "fn_emplace" /\ loc[t].key \in DOMAIN functions_)
         => functions_[loc[t].key] = loc[t].h

\* C6: no launcher passes Backend::launch_kernel a kernel_handle_ that no
\* load has assigned.
C6_LaunchedHandleAssigned ==
    \A t \in Threads :
      "launch_kernel" \in last[t].steps => last[t].kernel # Uninit

\* C7: a failing compilation ends the call with the compiler's error, leaves
\* overloads_ as it was and without the key, with no install, load or launch
\* in the call; and while the key is absent every call compiles.
C7_CompileFailureLeavesCache ==
    [][\A t \in Threads :
         /\ (pc[t] = "compile" /\ pc'[t] = "idle") =>
              /\ last'[t].err = "CompilerError"
              /\ overloads_' = overloads_
              /\ loc[t].key \notin DOMAIN overloads_'
              /\ last'[t].steps \cap {"emplace", "load_kernel", "launch_kernel"} = {}
         /\ (pc[t] = "get_kernel" /\ pc'[t] # "get_kernel"
               /\ OverloadKey(loc[t].sig, loc[t].dev) \notin DOMAIN overloads_)
              => pc'[t] = "gil_acquire"]_vars

\* C7 happens: a call succeeded on a key whose compilation had failed in
\* an earlier call.
C7_RetryCompiled ==
    /\ last["t1"].err = ""
    /\ "compile" \in last["t1"].steps
    /\ "launch_kernel" \in last["t1"].steps
    /\ Count(compileCalls, last["t1"].key) >= 2
    /\ Count(compiles, last["t1"].key) = 1

\* C8: a handle is installed unloaded; loaded_ is set only by a launch
\* storing what load_kernel returned, and never cleared; a launch whose load
\* fails leaves loaded_ false and launches nothing; and a launch on an
\* unloaded handle calls load_kernel.
C8_UnloadedToLoaded ==
    [][/\ \A k \in DOMAIN overloads_' :
            IF k \in DOMAIN overloads_
            THEN /\ overloads_[k].loaded_ => overloads_'[k].loaded_
                 /\ (~overloads_[k].loaded_ /\ overloads_'[k].loaded_) =>
                      \E t \in Threads : /\ pc[t] = "store"
                                         /\ loc[t].key = k
                                         /\ loc[t].ret # Uninit
            ELSE ~overloads_'[k].loaded_
       /\ \A t \in Threads :
            /\ (pc[t] = "driver_load" /\ pc'[t] = "idle") =>
                 /\ ~overloads_'[loc[t].key].loaded_
                 /\ "launch_kernel" \notin last'[t].steps
            /\ (pc[t] = "lazy_init_handle" /\ pc'[t] # "lazy_init_handle"
                  /\ ~Kernel(t).loaded_)
                 => (pc'[t] = "load_lock" /\ loadCalls' # loadCalls)]_vars

\* C8 happens: a launch loaded a handle that an earlier launch had failed
\* to load.
C8_LoadedOnRetry ==
    /\ last["t1"].err = ""
    /\ "load_kernel" \in last["t1"].steps
    /\ "compile" \notin last["t1"].steps
    /\ Count(loadCalls, last["t1"].key) >= 2
    /\ overloads_[last["t1"].key].loaded_

\* C9: a call with a symbolic or unsupported scalar box ends with the
\* classifier's error having done nothing but classify, and the step that
\* rejects changes nothing that a later call reads.
C9_RejectedBeforeAnything ==
    [][/\ \A t \in Threads :
            last'[t].pack \in {PackSymbolic, PackComplex} =>
              /\ last'[t].err \in {"TORCH_CHECK", "unsupported scalar type"}
              /\ last'[t].steps = {"classify"}
              /\ last'[t].key = None
       /\ rejects' # rejects =>
            UNCHANGED <<buildVars, functions_, overloads_, heap, backendVars,
                        lockVars, compileCalls, compiles, loadCalls, loads,
                        extracts, installs>>]_vars

\* C9 happens: a call with a valid scalar launched after a call that the
\* classifier had rejected.
C9_ValidCallAfterReject ==
    /\ rejects >= 1
    /\ last["t1"].err = ""
    /\ last["t1"].pack \in {PackAligned, PackUnaligned}
    /\ "launch_kernel" \in last["t1"].steps

\* C10: handling a scalar, a SPECIALIZED integer of value 1 appends the
\* token <T>:1 and nothing to kernel_args; a CONSTEXPR appends nothing to
\* kernel_args, and every other scalar appends exactly one slot.
C10_OnlySpecializedOneElided ==
    LET h == handler.h
        p == handler.prev
        it == handler.item
        v == IF it.kind = "opt" /\ it.has THEN it.inner ELSE it
        integral == v.kind = "int" \/ (v.kind = "box" /\ v.tp \in {"Bool", "Long", "UInt64"})
        pushed == Len(h.kernel_args) - Len(p.kernel_args)
        tag == At(handler.ssig, p.idx)
    IN (h # p /\ h.err = "" /\ v.kind \in {"int", "float", "box"}) =>
          IF tag = SPECIALIZED /\ integral /\ v.val = 1
          THEN /\ pushed = 0
               /\ h.signature[Len(h.signature)] \in {"i1:1", "i32:1", "i64:1", "u64:1"}
          ELSE IF tag = CONSTEXPR THEN pushed = 0 ELSE pushed = 1

\* C11: a tensor's token is *<dtype>:16 exactly when its parameter is
\* SPECIALIZED and its data address is a multiple of 16, and *<dtype>
\* otherwise; in both cases the address is pushed and gets one slot.
C11_TensorSuffixIffAligned ==
    LET h == handler.h
        p == handler.prev
        it == handler.item
        tag == At(handler.ssig, p.idx)
        suffixed == tag = SPECIALIZED /\ it.addr % 16 = 0
    IN (h # p /\ h.err = "" /\ it.kind = "tensor") =>
          /\ h.signature = Append(p.signature,
                                  IF suffixed THEN "*" \o it.dtype \o ":16"
                                  ELSE "*" \o it.dtype)
          /\ h.data_pointers = Append(p.data_pointers, it.addr)
          /\ h.kernel_args = Append(p.kernel_args,
                                    [to |-> "data_pointers", i |-> Len(h.data_pointers)])

\* C11 happens: an aligned and then an unaligned tensor were classified
\* under SPECIALIZED.
C11_AlignedThenUnaligned ==
    /\ Len(handler.ssig.arg_type) = 2
    /\ handler.ssig.arg_type[1] = SPECIALIZED
    /\ handler.ssig.arg_type[2] = SPECIALIZED
    /\ handler.h.err = ""
    /\ Len(handler.h.signature) >= 2
    /\ handler.h.signature[1] = "*fp32:16"
    /\ handler.h.signature[2] = "*fp32"
    /\ handler.h.data_pointers = <<32, 8>>

\* C12: a present optional is classified exactly as the value it holds,
\* under every tag; an absent optional appends the one token nullopt and
\* nothing to the payload, under every tag.
C12_OptionalFlattening ==
    LET h == handler.h
        p == handler.prev
        it == handler.item
    IN (h # p /\ it.kind = "opt") =>
          IF it.has
          THEN h = handle_arg(handler.ssig, p, it.inner)
          ELSE /\ h.err = ""
               /\ h.signature = Append(p.signature, "nullopt")
               /\ h.kernel_args = p.kernel_args
               /\ h.data_pointers = p.data_pointers

\* C12 happens: a present optional holding a tensor and then an absent
\* optional were classified.
C12_PresentThenAbsent ==
    /\ Len(handler.rest) = MaxArgs - 2
    /\ handler.item = Absent
    /\ handler.h.err = ""
    /\ handler.h.signature[1] = "*fp32:16"
    /\ handler.h.signature[2] = "nullopt"
    /\ handler.h.data_pointers = <<32>>
    /\ Len(handler.h.kernel_args) = 1
    /\ handler.prev = handle_arg(handler.ssig, ArgHandleInit, Present(Tensor("fp32", 32)))

RECURSIVE UserSlots(_, _, _)
UserSlots(ssig, args, i) ==
    IF i > Len(args) THEN <<>>
    ELSE LET a == args[i]
             v == IF a.kind = "opt" /\ a.has THEN a.inner ELSE a
             tag == IF i \in DOMAIN ssig.arg_type THEN ssig.arg_type[i] ELSE NON_CONSTEXPR
             integral == v.kind = "int" \/ (v.kind = "box" /\ v.tp \in {"Bool", "Long", "UInt64"})
             none == \/ v.kind = "opt"
                     \/ (v.kind # "tensor" /\ tag = CONSTEXPR)
                     \/ (tag = SPECIALIZED /\ integral /\ v.val = 1)
             slot == IF v.kind = "tensor" THEN v.addr ELSE v.val
         IN (IF none THEN <<>> ELSE <<slot>>) \o UserSlots(ssig, args, i + 1)

\* C14: once a pack is classified, the payload is the slots of its source
\* arguments in declaration order (none for a CONSTEXPR, a SPECIALIZED
\* integer 1 or an absent optional) followed by one null scratch slot.
C14_PayloadSlots ==
    handler.item = Scratch =>
       Payload(handler.h) = UserSlots(handler.ssig, handler.args, 1) \o <<0>>

\* C15: on the NPU backend no call through operator() fails at the launch
\* for want of an argument layout: the signature the call built reaches
\* NpuBackend::launch_kernel when the metadata has no arg_layout.
C15_NpuLaunchHasLayout ==
    \A t \in Threads :
      backend = "npu" => last[t].err # "no signature or arg_layout provided"


(***************************************************************************)
(* NpuArgBuffer (npu_backend.h): the byte buffer handed to rtKernelLaunch. *)
(* buffer_ is modelled by the set of writes made into it, each a record    *)
(* [off, size, val]; buffer_size is buffer_.size().                        *)
(***************************************************************************)
MaxLayout == 3

NpuArgTypes == {"POINTER", "I32", "I64", "F32", "F64"}

\* NpuArgInfo::get_size; alignof(T) equals sizeof(T) for these five types.
get_size(type) == IF type \in {"I32", "F32"} THEN 4 ELSE 8

SYSTEM_ARGS_SIZE == 24
USER_ARGS_OFFSET == SYSTEM_ARGS_SIZE

\* A slot of the args array: a null pointer or a pointer to a value.
NullPtr == [null |-> TRUE, val |-> 0]
PtrTo(v) == [null |-> FALSE, val |-> v]

\* align_to that leaves the position where it is.
align_none(pos, alignment) == pos

\* (pos + alignment - 1) & ~(alignment - 1), alignment a power of two.
align_to(pos, alignment) == ((pos + alignment - 1) \div alignment) * alignment

\* An ensure_capacity that never resizes.
ensure_capacity_fixed(b, required) == b

ensure_capacity(b, required) ==
    IF required > b.buffer_size THEN [b EXCEPT !.buffer_size = required + 32] ELSE b

memcpy(b, off, size, val) ==
    [b EXCEPT !.buffer_ = {w \in @ : w.off # off} \cup {[off |-> off, size |-> size, val |-> val]}]

push_arg(b, size, value) ==
    LET c == align_to(b.cursor_, size)
        e == ensure_capacity([b EXCEPT !.cursor_ = c], c + size)
    IN  [memcpy(e, c, size, value) EXCEPT !.cursor_ = c + size]

push_arg_by_type(b, arg_ptr, type) ==
    IF arg_ptr.null THEN b ELSE push_arg(b, get_size(type), arg_ptr.val)

RECURSIVE push_args_from_layout(_, _, _, _)
push_args_from_layout(b, args, layout, i) ==
    IF i > Len(layout) THEN b
    ELSE push_args_from_layout(
             IF ~args[i].null THEN push_arg_by_type(b, args[i], layout[i]) ELSE b,
             args, layout, i + 1)

set_system_args(b, ffts, sync_lock, workspace) ==
    memcpy(memcpy(memcpy(b, 0, 8, ffts), 8, 8, sync_lock), 16, 8, workspace)

set_grid(b, gx, gy, gz) ==
    LET c == align_to(b.cursor_, 4)
        e == ensure_capacity([b EXCEPT !.cursor_ = c], c + 12)
    IN  [memcpy(memcpy(memcpy(e, c, 4, gx), c + 4, 4, gy), c + 8, 4, gz)
            EXCEPT !.cursor_ = c + 12]

\* NpuArgBuffer(estimated_user_args)
NewArgBuffer(estimated_user_args) ==
    [cursor_ |-> USER_ARGS_OFFSET,
     buffer_size |-> SYSTEM_ARGS_SIZE + estimated_user_args + 16,
     buffer_ |-> {}]

FftsAddr == 4096
Grids == {<<1, 1, 1>>, <<2, 3, 4>>}
Layouts == UNION {[1..n -> NpuArgTypes] : n \in 0..MaxLayout}
\* args[i] points at the value 100 + i, or is null.
ArgArrays(n) == {[i \in 1..n |-> IF i \in S THEN PtrTo(100 + i) ELSE NullPtr] : S \in SUBSET (1..n)}

\* launch_kernel from the construction of arg_buffer on, one action per
\* NpuArgBuffer call it makes, in the order it makes them.
BufferInit ==
    /\ RuntimeInit({}, 0, {"npu"}, {FnKey})
    /\ handler = NoHandler
    /\ ctor = NoCtor
    /\ loader = NoLoader
    /\ parser = NoParser
    /\ dims = NoDims
    /\ \E layout \in Layouts, grid \in Grids : \E args \in ArgArrays(Len(layout)) :
          arg_buffer = [layout |-> layout, args |-> args, grid |-> grid,
                        stage |-> "constructed", size |-> 0,
                        buf |-> NewArgBuffer(Len(layout) * 8 + 16)]

BufferStep(from, to, b) ==
    /\ arg_buffer.stage = from
    /\ arg_buffer' = [arg_buffer EXCEPT !.stage = to, !.buf = b]
    /\ UNCHANGED <<buildVars, handler, ctor, loader, parser, dims, runtimeVars>>

SetSystemArgs ==
    BufferStep("constructed", "system", set_system_args(arg_buffer.buf, FftsAddr, 0, 0))

PushArgsFromLayout ==
    BufferStep("system", "user",
               push_args_from_layout(arg_buffer.buf, arg_buffer.args, arg_buffer.layout, 1))

SetGrid ==
    BufferStep("user", "grid",
               set_grid(arg_buffer.buf, arg_buffer.grid[1], arg_buffer.grid[2], arg_buffer.grid[3]))

\* rtKernelLaunch(kernel, blockNum, arg_buffer.data(), arg_buffer.size(), ...)
RtKernelLaunch ==
    /\ arg_buffer.stage = "grid"
    /\ arg_buffer' = [arg_buffer EXCEPT !.stage = "launched", !.size = arg_buffer.buf.cursor_]
    /\ UNCHANGED <<buildVars, handler, ctor, loader, parser, dims, runtimeVars>>

BufferNext == SetSystemArgs \/ PushArgsFromLayout \/ SetGrid \/ RtKernelLaunch
BufferSpec == BufferInit /\ [][BufferNext]_vars

\* The smallest offset not below `from` that is a multiple of `alignment`.
SmallestAligned(from, alignment) ==
    CHOOSE o \in from..(from + alignment) :
        /\ o % alignment = 0
        /\ \A p \in from..(o - 1) : p % alignment # 0

\* The writes the user arguments i.. of the layout are expected to make when
\* the previous argument ended at `end`, and the end of the last of them.
RECURSIVE ExpectedUser(_, _, _, _)
ExpectedUser(layout, args, i, end) ==
    IF i > Len(layout) THEN [writes |-> {}, end |-> end]
    ELSE IF args[i].null THEN ExpectedUser(layout, args, i + 1, end)
    ELSE LET off == SmallestAligned(end, get_size(layout[i]))
             rest == ExpectedUser(layout, args, i + 1, off + get_size(layout[i]))
         IN  [writes |-> {[off |-> off, size |-> get_size(layout[i]), val |-> args[i].val]}
                           \cup rest.writes,
              end |-> rest.end]

\* C16: the buffer handed to the driver holds the ffts address, null and
\* null in 8-byte slots at offsets 0, 8 and 16, then the user arguments from
\* offset 24 in layout order, each at the smallest offset not below the
\* previous argument's end that is a multiple of its alignment, then
\* grid_x, grid_y, grid_z as three consecutive 32-bit integers, and the
\* size passed to the driver is the offset just past grid_z.
C16_LaunchBufferLayout ==
    arg_buffer.stage = "launched" =>
        LET u == ExpectedUser(arg_buffer.layout, arg_buffer.args, 1, 24)
            g == arg_buffer.grid
        IN  /\ arg_buffer.buf.buffer_ =
                  {[off |-> 0, size |-> 8, val |-> FftsAddr],
                   [off |-> 8, size |-> 8, val |-> 0],
                   [off |-> 16, size |-> 8, val |-> 0]}
                  \cup u.writes
                  \cup {[off |-> u.end + 4 * (k - 1), size |-> 4, val |-> g[k]] : k \in 1..3}
            /\ arg_buffer.size = u.end + 12

\* A 4-byte argument followed by an 8-byte one has been laid out and launched.
C16_PaddedLaunch ==
    /\ arg_buffer.stage = "launched"
    /\ arg_buffer.layout = <<"I32", "I64">>
    /\ \A i \in 1..2 : ~arg_buffer.args[i].null
    /\ [off |-> 32, size |-> 8, val |-> 102] \in arg_buffer.buf.buffer_
    /\ arg_buffer.size = 52

\* C17: a pack with more arguments than the static signature has class
\* tags is never classified to the end: the call fails in the classifier,
\* before the global scratch slot is pushed and the kernel is looked up.
C17_LongPackRejected ==
    Len(handler.args) > Len(handler.ssig.arg_type) =>
        ~(handler.item = Scratch /\ handler.h.err = "")

\* A pack whose argument past the last class tag is an absent optional has
\* been classified to the end without an error.
C17_AbsentPastTheTags ==
    /\ Len(handler.args) > Len(handler.ssig.arg_type)
    /\ handler.args[Len(handler.args)] = Absent
    /\ handler.item = Scratch
    /\ handler.h.err = ""
    /\ handler.h.signature[Len(handler.h.signature)] = "nullopt"

\* A pack whose argument past the last class tag is a tensor or a scalar
\* has been rejected by the bounds-checked read of its tag.
C17_ValuePastTheTags ==
    /\ Len(handler.args) > Len(handler.ssig.arg_type)
    /\ handler.h.err = "out_of_range"

(***************************************************************************)
(* The constructor's conversion of the list extract_static_signature       *)
(* returns (triton_jit_function_impl.cpp 57-71, triton_jit_function.cpp    *)
(* 33-45).                                                                 *)
(***************************************************************************)
MaxRaw == 3

\* The Python objects of the list: the three argument classes as ints, and
\* objects item.cast<int>() throws py::cast_error for.
PyInt(v) == [py |-> "int", val |-> v]
PyStr == [py |-> "str", val |-> 0]
PyNone == [py |-> "NoneType", val |-> 0]
PyItems == {PyInt(NON_CONSTEXPR), PyInt(SPECIALIZED), PyInt(CONSTEXPR), PyStr, PyNone}

\* item.cast<int>() succeeds.
CastsToInt(item) == item.py = "int"

\* Lines 57-61: the list is cast, num_args is its size, arg_types is empty.
CtorInit ==
    /\ RuntimeInit({}, 0, {"cuda"}, {})
    /\ handler = NoHandler
    /\ arg_buffer = NoBuffer
    /\ loader = NoLoader
    /\ parser = NoParser
    /\ dims = NoDims
    /\ \E n \in 0..MaxRaw : \E raw \in [1..n -> PyItems] :
          ctor = [arg_types_raw |-> raw, rest |-> raw, num_args |-> Len(raw),
                  arg_types |-> <<>>, stage |-> "loop",
                  static_sig_ |-> [num_args |-> 0, arg_type |-> <<>>]]

\* Lines 62-68, one iteration: the class is pushed, or the cast_error is
\* caught and the item is passed over.
CastItem ==
    /\ ctor.stage = "loop"
    /\ ctor.rest # <<>>
    /\ LET item == Head(ctor.rest)
       IN ctor' = [ctor EXCEPT
                     !.rest = Tail(@),
                     !.arg_types = IF CastsToInt(item) THEN Append(@, item.val) ELSE @]
    /\ UNCHANGED <<buildVars, handler, arg_buffer, loader, parser, dims, runtimeVars>>

\* Line 69: this->static_sig_ = StaticSignature{num_args, arg_types}.
StoreStaticSig ==
    /\ ctor.stage = "loop"
    /\ ctor.rest = <<>>
    /\ ctor' = [ctor EXCEPT !.stage = "built",
                            !.static_sig_ = [num_args |-> ctor.num_args,
                                             arg_type |-> ctor.arg_types]]
    /\ UNCHANGED <<buildVars, handler, arg_buffer, loader, parser, dims, runtimeVars>>

CtorNext == CastItem \/ StoreStaticSig
CtorSpec == CtorInit /\ [][CtorNext]_vars

\* C18: the static signature the constructor stores has as many class tags
\* as num_args says, whatever list extract_static_signature returned.
C18_TagsMatchNumArgs ==
    ctor.stage = "built" => Len(ctor.static_sig_.arg_type) = ctor.static_sig_.num_args

\* A list with an item that is no int has been converted: the stored
\* static signature has fewer tags than num_args.
C18_TagSkipped ==
    /\ ctor.stage = "built"
    /\ \E i \in DOMAIN ctor.arg_types_raw : ~CastsToInt(ctor.arg_types_raw[i])
    /\ Len(ctor.static_sig_.arg_type) < ctor.static_sig_.num_args

\* A list of ints alone has been converted: one tag per item.
C18_AllTagsKept ==
    /\ ctor.stage = "built"
    /\ ctor.static_sig_.num_args = MaxRaw
    /\ Len(ctor.static_sig_.arg_type) = MaxRaw

(***************************************************************************)
(* CudaBackend::load_kernel and configure_shared_memory (cuda_backend.h    *)
(* 182-252, 298-350) on their own: one artifact directory, loaded up to    *)
(* MaxLoads times on one device, with the metadata file, the device and    *)
(* the driver's answers drawn from small sets.                             *)
(***************************************************************************)
MaxLoads == 2

LoaderDir == "cache/k"
LARGE_SHARED == 49152

ArchMismatch == "Compute architecture mismatch!"
OutOfResources == "OutOfResources"
CudaError == "CUDA error"
MetadataError == "Failed to open metadata file"

MetaArchs == {80, 90}
DeviceCaps == {<<8, 0>>, <<8, 6>>, <<9, 0>>}
SharedSizes == {1024, 49152, 49153, 101376}
OptinLimits == {49152, 65536, 101376}
StaticSizes == {0, 1024}
\* The driver call of configure_shared_memory that fails, if one does.
FailPoints == {"none", "cuFuncSetCacheConfig", "cuFuncGetAttribute", "cuFuncSetAttribute"}
\* What an int the driver never wrote can hold.
Garbage == OptinLimits \cup {-1, 0}

CudaEnvs ==
    [file_ok : BOOLEAN, arch : MetaArchs, shared : SharedSizes,
     ctx_ok : BOOLEAN, cap : DeviceCaps, load_ok : BOOLEAN,
     optin_ok : BOOLEAN, optin : OptinLimits, static : StaticSizes,
     fail_at : FailPoints]

\* An architecture check that accepts every newer device.
arch_at_least(device_arch, arch) == device_arch >= arch

\* Line 228: device_arch != metadata.arch, negated.
arch_matches(device_arch, arch) == device_arch = arch

\* required_shared > shared_optin with required_shared unsigned: the int is
\* converted to unsigned, a negative one to a value above every size here.
UnsignedGreater(u, i) == i >= 0 /\ u > i

\* A configuration that grants the whole opt-in limit as dynamic memory.
configure_shared_memory_whole(kernel, required_shared, shared_optin, shared_static, fail_at) ==
    IF UnsignedGreater(required_shared, shared_optin)
    THEN [err |-> OutOfResources, kernel |-> kernel]
    ELSE IF required_shared > LARGE_SHARED /\ shared_optin > LARGE_SHARED
    THEN [err |-> "", kernel |-> [cache_config |-> "PREFER_SHARED",
                                  max_dynamic |-> [set |-> TRUE, val |-> shared_optin]]]
    ELSE [err |-> "", kernel |-> kernel]

\* configure_shared_memory, lines 298-350, given what the driver answers:
\* the error thrown, if any, and the attributes of the kernel afterwards.
configure_shared_memory(kernel, required_shared, shared_optin, shared_static, fail_at) ==
    IF UnsignedGreater(required_shared, shared_optin)
    THEN [err |-> OutOfResources, kernel |-> kernel]
    ELSE IF required_shared > LARGE_SHARED /\ shared_optin > LARGE_SHARED
    THEN IF fail_at = "cuFuncSetCacheConfig"
         THEN [err |-> CudaError, kernel |-> kernel]
         ELSE LET k == [kernel EXCEPT !.cache_config = "PREFER_SHARED"]
              IN IF fail_at \in {"cuFuncGetAttribute", "cuFuncSetAttribute"}
                 THEN [err |-> CudaError, kernel |-> k]
                 ELSE [err |-> "",
                       kernel |-> [k EXCEPT !.max_dynamic =
                                      [set |-> TRUE, val |-> shared_optin - shared_static]]]
    ELSE [err |-> "", kernel |-> kernel]

loaderFrame == <<buildVars, handler, arg_buffer, ctor, parser, dims, functions_, overloads_, heap, pc,
                 loc, budget, last, registered_names_, func_stubs_, gil, countVars>>

CudaLoadInit ==
    /\ RuntimeInit({}, 0, {"cuda"}, {})
    /\ handler = NoHandler
    /\ arg_buffer = NoBuffer
    /\ ctor = NoCtor
    /\ parser = NoParser
    /\ dims = NoDims
    /\ \E env \in CudaEnvs : loader = [NoLoader EXCEPT !.env = env, !.stage = "idle"]

LoaderThrow(l, err) ==
    /\ loader' = [l EXCEPT !.stage = "thrown", !.err = err]
    /\ cache_mutex_' = None

\* Lines 186-198: the key is built, the lock is taken and the cache looked up; on a hit the
\* function is taken from the cached module and returned.
LoadKernelFind ==
    /\ loader.stage \in {"idle", "returned", "thrown"}
    /\ loader.calls < MaxLoads
    /\ cache_mutex_ = None
    /\ LET l == [loader EXCEPT !.calls = @ + 1, !.err = "", !.configured = FALSE]
       IN IF LoaderDir \in DOMAIN module_cache_
          THEN /\ loader' = [l EXCEPT !.stage = "returned"]
               /\ UNCHANGED cache_mutex_
          ELSE /\ loader' = [l EXCEPT !.stage = "metadata"]
               /\ cache_mutex_' = "t1"
    /\ UNCHANGED <<loaderFrame, module_cache_, driver>>

\* Lines 200-211: the metadata file is opened and parsed.
ReadMetadata ==
    /\ loader.stage = "metadata"
    /\ IF loader.env.file_ok
       THEN loader' = [loader EXCEPT !.stage = "arch"] /\ UNCHANGED cache_mutex_
       ELSE LoaderThrow(loader, MetadataError)
    /\ UNCHANGED <<loaderFrame, module_cache_, driver>>

\* Lines 217-232: the device of the current context is asked for its
\* compute capability, which must equal the metadata's.
CheckArch ==
    /\ loader.stage = "arch"
    /\ LET device_arch == loader.env.cap[1] * 10 + loader.env.cap[2]
       IN IF ~loader.env.ctx_ok THEN LoaderThrow(loader, CudaError)
          ELSE IF ~arch_matches(device_arch, loader.env.arch)
          THEN LoaderThrow(loader, ArchMismatch)
          ELSE loader' = [loader EXCEPT !.stage = "module"] /\ UNCHANGED cache_mutex_
    /\ UNCHANGED <<loaderFrame, module_cache_, driver>>

\* Lines 234-243: cuModuleLoad and cuModuleGetFunction.
ModuleLoad ==
    /\ loader.stage = "module"
    /\ LET l == [loader EXCEPT !.module_loads = @ + 1]
       IN IF loader.env.load_ok
          THEN /\ loader' = [l EXCEPT !.stage = "shared", !.kernel = FreshKernel]
               /\ driver' = Inc(driver, LoaderDir)
               /\ UNCHANGED cache_mutex_
          ELSE /\ LoaderThrow(l, CudaError)
               /\ UNCHANGED driver
    /\ UNCHANGED <<loaderFrame, module_cache_>>

\* Line 246 and lines 298-350: cuDeviceGetAttribute's result is not
\* looked at, so shared_optin is what the driver wrote or what it was.
ConfigureSharedMemory ==
    /\ loader.stage = "shared"
    /\ \E shared_optin \in (IF loader.env.optin_ok THEN {loader.env.optin} ELSE Garbage) :
          LET r == configure_shared_memory(loader.kernel, loader.env.shared, shared_optin,
                                           loader.env.static, loader.env.fail_at)
              l == [loader EXCEPT !.kernel = r.kernel, !.configured = TRUE]
          IN IF r.err # "" THEN LoaderThrow(l, r.err)
             ELSE loader' = [l EXCEPT !.stage = "cache"] /\ UNCHANGED cache_mutex_
    /\ UNCHANGED <<loaderFrame, module_cache_, driver>>

\* Lines 248-251: the module is cached and the function returned.
CacheModule ==
    /\ loader.stage = "cache"
    /\ LET m == Module(LoaderDir, Count(driver, LoaderDir))
       IN module_cache_' = Put(module_cache_, LoaderDir,
                               [module |-> m, fn |-> m, layout |-> FALSE])
    /\ loader' = [loader EXCEPT !.stage = "returned"]
    /\ cache_mutex_' = None
    /\ UNCHANGED <<loaderFrame, driver>>

CudaLoadNext ==
    \/ LoadKernelFind
    \/ ReadMetadata
    \/ CheckArch
    \/ ModuleLoad
    \/ ConfigureSharedMemory
    \/ CacheModule
CudaLoadSpec == CudaLoadInit /\ [][CudaLoadNext]_vars

LoaderDone == loader.stage \in {"returned", "thrown"}

\* C19: with the metadata read and the device queried, load_kernel fails
\* with the architecture-mismatch error if and only if major*10+minor
\* differs from target.arch, and on a mismatch cuModuleLoad is never
\* invoked and the module cache gets no entry.
C19_ArchMismatchIff ==
    (LoaderDone /\ loader.env.file_ok /\ loader.env.ctx_ok) =>
        LET differs == loader.env.cap[1] * 10 + loader.env.cap[2] # loader.env.arch
        IN /\ (loader.err = ArchMismatch) <=> differs
           /\ differs => /\ loader.module_loads = 0
                         /\ driver = EmptyMap
                         /\ module_cache_ = EmptyMap

\* An sm_86 device has refused an sm_80 artifact twice.
C19_MismatchThrown ==
    /\ loader.stage = "thrown"
    /\ loader.calls = MaxLoads
    /\ loader.env.cap = <<8, 6>>
    /\ loader.env.arch = 80
    /\ loader.err = ArchMismatch
    /\ module_cache_ = EmptyMap

\* An sm_90 device has loaded and cached an sm_90 artifact.
C19_MatchLoaded ==
    /\ loader.stage = "returned"
    /\ loader.env.cap = <<9, 0>>
    /\ loader.env.arch = 90
    /\ LoaderDir \in DOMAIN module_cache_

\* C20: once configure_shared_memory has run with the driver answering,
\* it has failed with the resource-limit error exactly when required_shared
\* exceeds the opt-in limit; otherwise, with both above 49152, the kernel's
\* max-dynamic-shared attribute is the opt-in limit less the static usage;
\* otherwise no attribute of the kernel has changed.
C20_SharedMemoryConfigured ==
    (loader.configured /\ loader.env.optin_ok /\ loader.env.fail_at = "none") =>
        LET required == loader.env.shared
            optin == loader.env.optin
        IN /\ (loader.err = OutOfResources) <=> required > optin
           /\ required <= optin =>
                IF required > 49152 /\ optin > 49152
                THEN loader.kernel.max_dynamic =
                        [set |-> TRUE, val |-> optin - loader.env.static]
                ELSE loader.kernel = FreshKernel

\* A kernel needing 49153 bytes with 1024 static ones has been given
\* 65536 - 1024 bytes of dynamic shared memory.
C20_LargeSharedGranted ==
    /\ loader.configured
    /\ loader.env.optin_ok
    /\ loader.env.shared = 49153
    /\ loader.env.optin = 65536
    /\ loader.env.static = 1024
    /\ loader.kernel.max_dynamic = [set |-> TRUE, val |-> 64512]
    /\ loader.err = ""

\* A kernel needing more than the opt-in limit has been refused.
C20_OverLimitRefused ==
    /\ loader.configured
    /\ loader.env.optin_ok
    /\ loader.env.shared = 101376
    /\ loader.env.optin = 65536
    /\ loader.err = OutOfResources
    /\ loader.kernel = FreshKernel

\* C21: every call started through operator() or launch_with_raw_args
\* ends: it returns, having issued its launch, or it raises an error; no
\* thread waits for ever for cache_mutex_ or the interpreter lock.
C21_EveryCallEnds ==
    \A t \in Threads :
        (pc[t] # "idle") ~>
            (pc[t] = "idle" /\ (last[t].err = "" => "launch_kernel" \in last[t].steps))

\* A thread waits for cache_mutex_ while the other is inside load_kernel,
\* and a thread waits for the interpreter lock while the other compiles.
C21_WaitingForTheMutex ==
    /\ pc["t2"] = "load_lock"
    /\ cache_mutex_ = "t1"
    /\ pc["t1"] = "driver_load"

\* C22: calls through the two entry points, one after the other, share
\* overloads_: at most one handle is ever installed per (signature, device)
\* and at most one compilation succeeds for it, and every call, through
\* either entry point, works on the handle installed for its key.
C22_EntryPointsShareCache ==
    /\ \A k \in DOMAIN installs : Cardinality(installs[k]) <= 1
    /\ \A k \in DOMAIN compiles : compiles[k] <= 1
    /\ \A t \in Threads :
         /\ (pc[t] \in {"lazy_init_handle", "load_lock", "load_find", "driver_load",
                        "store", "get_shared_memory", "launch_kernel"}) =>
              /\ loc[t].key = OverloadKey(loc[t].sig, loc[t].dev)
              /\ loc[t].key \in DOMAIN overloads_
              /\ overloads_[loc[t].key].addr = loc[t].h
              /\ installs[loc[t].key] = {loc[t].h}
         /\ (pc[t] = "compile") => loc[t].key \notin DOMAIN overloads_

\* A launch_with_raw_args call is about to launch, without compiling, the
\* handle that the operator() call before it compiled and launched.
C22_RawAfterOperator ==
    /\ pc["t1"] = "launch_kernel"
    /\ "raw" \in loc["t1"].steps
    /\ "compile" \notin loc["t1"].steps
    /\ "classify" \in last["t1"].steps
    /\ "compile" \in last["t1"].steps
    /\ last["t1"].err = ""
    /\ last["t1"].key = loc["t1"].key
    /\ last["t1"].h = loc["t1"].h

\* An operator() call is about to launch, without compiling, the handle
\* that the launch_with_raw_args call before it compiled and launched.
C22_OperatorAfterRaw ==
    /\ pc["t1"] = "launch_kernel"
    /\ "classify" \in loc["t1"].steps
    /\ "compile" \notin loc["t1"].steps
    /\ "raw" \in last["t1"].steps
    /\ "compile" \in last["t1"].steps
    /\ last["t1"].err = ""
    /\ last["t1"].h = loc["t1"].h

\* C23: over any sequence of load_kernel calls for one (dir, entry_name),
\* calls that fail after the driver has loaded or registered the binary
\* and their retries included, the driver loads or registers at most one
\* module for it.
C23_OneModulePerDir ==
    \A d \in DOMAIN driver : driver[d] <= 1

\* A load that failed after the driver had loaded the binary was retried
\* and loaded it again: the first module is neither cached nor unloaded.
C23_ModuleLoadedAgain ==
    /\ \E d \in DOMAIN driver : driver[d] >= 2 /\ Count(loads, d) = 1
    /\ last["t1"].err = ""
    /\ "load_kernel" \in last["t1"].steps

\* The thread t stores loaded_ in this step.
WritesLoaded(t) ==
    /\ pc[t] = "store"
    /\ "loaded_" \in loc[t].pending
    /\ "loaded_" \notin loc'[t].pending

\* C24: every store to a handle's loaded_ is made by a thread that holds
\* cache_mutex_, it is made to a flag that is still false (the flag is
\* written to true once), and no step resets the flag.
C24_FlagWrittenUnderMutex ==
    [][/\ \A t \in Threads :
            WritesLoaded(t) => /\ cache_mutex_ = t
                               /\ ~overloads_[loc[t].key].loaded_
       /\ \A k \in DOMAIN overloads_ :
            overloads_[k].loaded_ => (k \in DOMAIN overloads_' /\ overloads_'[k].loaded_)
      ]_vars

\* The part of C24 that the mutex has nothing to do with: no step resets
\* a flag that is true.
C24_FlagNeverReset ==
    [][\A k \in DOMAIN overloads_ :
            overloads_[k].loaded_ => (k \in DOMAIN overloads_' /\ overloads_'[k].loaded_)
      ]_vars

\* A handle's flag is true and a second thread, which read it as false, is
\* about to store true to it again, holding no mutex.
C24_SecondWritePending ==
    /\ pc["t2"] = "store"
    /\ "loaded_" \in loc["t2"].pending
    /\ overloads_[loc["t2"].key].loaded_
    /\ cache_mutex_ # "t2"

\* Where a thread is inside a Compiler Bridge call or waiting to enter one
\* (requesting the interpreter lock), and where it is inside load_kernel.
InBridge(t) == pc[t] \in {"compile", "construct"}
RequestsGil(t) == pc[t] \in {"gil_acquire", "construct_gil"}
InLoadKernel(t) == pc[t] \in {"load_find", "driver_load"}

\* C25: no thread holds cache_mutex_ while it is inside
\* extract_static_signature or compile_a_kernel, and no thread that holds
\* cache_mutex_ (inside load_kernel) requests or holds the interpreter lock.
C25_LocksNeverNested ==
    \A t \in Threads :
        /\ InBridge(t) => (cache_mutex_ # t /\ gil = t)
        /\ cache_mutex_ = t => (InLoadKernel(t) /\ ~RequestsGil(t) /\ gil # t)

\* One thread is inside compile_a_kernel with the interpreter lock while
\* the other is inside load_kernel with cache_mutex_.
C25_CompileBesideLoad ==
    /\ pc["t1"] = "compile"
    /\ gil = "t1"
    /\ pc["t2"] = "driver_load"
    /\ cache_mutex_ = "t2"

\* One thread is inside extract_static_signature while the other is
\* inside load_kernel.
C25_ExtractBesideLoad ==
    /\ pc["t1"] = "construct"
    /\ gil = "t1"
    /\ pc["t2"] = "driver_load"
    /\ cache_mutex_ = "t2"

\* The steps that a call must have made before it makes a step.
StepsBefore(step) ==
    CASE step = "classify" -> {}
      [] step = "ensure_context" -> {"classify"}
      [] step = "get_device_index" -> {"classify", "ensure_context"}
      [] step = "find" -> {"classify", "ensure_context", "get_device_index"}
      [] step = "compile" -> {"classify", "ensure_context", "get_device_index", "find"}
      [] step = "emplace" -> {"classify", "ensure_context", "get_device_index", "find",
                              "compile"}
      [] step \in {"loaded", "load_kernel"} ->
                             {"classify", "ensure_context", "get_device_index", "find"}
      [] step = "get_shared_memory" ->
                             {"classify", "ensure_context", "get_device_index", "find"}
      [] step = "launch_kernel" ->
                             {"classify", "ensure_context", "get_device_index", "find",
                              "get_shared_memory"}

\* The steps of a call are in order, and the step that failed is the last.
InOrder(steps, err) ==
    /\ \A step \in steps : StepsBefore(step) \subseteq steps
    /\ ("compile" \in steps /\ steps \cap {"loaded", "load_kernel"} # {}) =>
           "emplace" \in steps
    /\ "get_shared_memory" \in steps => (("loaded" \in steps) # ("load_kernel" \in steps))
    /\ err = "ensure_context failed" => steps = {"classify", "ensure_context"}
    /\ err = "get_device_index failed" =>
           steps = {"classify", "ensure_context", "get_device_index"}
    /\ err = "CompilerError" => steps = StepsBefore("compile") \cup {"compile"}
    /\ err = "Unable to emplace" => steps = StepsBefore("emplace") \cup {"emplace"}
    /\ err = "load failed" =>
           /\ "load_kernel" \in steps
           /\ steps \cap {"loaded", "get_shared_memory", "launch_kernel"} = {}
    /\ err \notin {"", "launch failed", "no signature or arg_layout provided"} =>
           "launch_kernel" \notin steps

\* C26: within a call the steps are made in the order classify,
\* ensure_context, device query, lookup (and compile on a miss), load on a
\* handle read as unloaded, launch, each only after the earlier ones
\* succeeded; the cache key holds the device read after ensure_context; and
\* a launch is issued only for a handle whose directory has been loaded.
C26_StepsInOrder ==
    \A t \in Threads :
        /\ pc[t] # "idle" => InOrder(loc[t].steps, "")
        /\ last[t].err # "no call yet" => InOrder(last[t].steps, last[t].err)
        /\ loc[t].key # None =>
              /\ "get_device_index" \in loc[t].steps
              /\ loc[t].key = OverloadKey(loc[t].sig, loc[t].dev)
        /\ pc[t] \in {"get_shared_memory", "launch_kernel"} =>
              /\ Kernel(t).dir \in DOMAIN module_cache_
              /\ Count(loads, Kernel(t).dir) >= 1

\* A call went through every step, compiling and loading, and returned;
\* another failed in load_kernel and launched nothing.
C26_FullCallAndFailedLoad ==
    /\ last["t1"].err = ""
    /\ last["t1"].steps = {"classify", "ensure_context", "get_device_index", "find",
                           "compile", "emplace", "load_kernel", "get_shared_memory",
                           "launch_kernel"}
    /\ last["t2"].err = "load failed"

\* The token of the i-th source argument when it is classified on its own
\* with the cursor at its position.
TokenAt(ssig, args, i) ==
    handle_arg(ssig, [ArgHandleInit EXCEPT !.idx = i - 1], args[i]).signature[1]

\* C27: while nothing has thrown, the classifier has emitted one token per
\* source argument handled, the cursor equals their number, and the i-th
\* token is the one the i-th argument gets under the i-th tag, an absent
\* optional counting as one parameter like every other argument.
C27_OneTokenPerArgument ==
    handler.h.err = "" =>
        LET handled == Len(handler.args) - Len(handler.rest)
        IN /\ Len(handler.h.signature) = handled
           /\ handler.h.idx = handled
           /\ \A i \in 1..handled :
                handler.h.signature[i] = TokenAt(handler.ssig, handler.args, i)

\* An absent optional under a CONSTEXPR tag was followed by an integer
\* under a NON_CONSTEXPR tag: the integer got its type as a token, not
\* its value.
C27_AbsentThenInteger ==
    /\ handler.ssig.arg_type = <<CONSTEXPR, NON_CONSTEXPR>>
    /\ handler.args = <<Absent, IntArg("i64", 7)>>
    /\ handler.rest = <<>>
    /\ handler.h.err = ""
    /\ handler.h.idx = 2
    /\ handler.h.signature = <<"nullopt", "i64">>

\* C28: a call with fewer arguments than num_args fails in operator()
\* before anything is compiled or launched: no call with such a pack gets
\* past the classifier, and it ends with an error.
C28_ShortPackRejected ==
    \A t \in Threads :
        /\ (pc[t] # "idle" /\ "classify" \in loc[t].steps) =>
              Len(loc[t].pack) >= StaticSig.num_args
        /\ (last[t].err = "" /\ "classify" \in last[t].steps) =>
              Len(last[t].pack) >= StaticSig.num_args

\* A call with one argument for two parameters compiled a kernel for the
\* one-token signature, launched it and returned.
C28_ShortPackLaunched ==
    /\ last["t1"].pack = PackShort
    /\ last["t1"].err = ""
    /\ last["t1"].sig = "*fp32:16"
    /\ "compile" \in last["t1"].steps
    /\ "launch_kernel" \in last["t1"].steps

(***************************************************************************)
(* parse_signature (npu_backend.h 178-242).  A std::string is a sequence   *)
(* of characters; the signature parsed is a list of tokens joined by ",".  *)
(***************************************************************************)
MaxTokens == 2

\* The tokens signatures are made of, by what the parser is to make of them.
PointerTokens == {<<"*", "f", "p", "3", "2", ":", "1", "6">>, <<"*", "i", "3", "2">>}
I32Tokens == {<<"i", "3", "2">>, <<"u", "3", "2">>, <<"i", "3", "2", ":", "1">>}
I64Tokens == {<<"i", "6", "4">>, <<"u", "6", "4">>, <<" ", "i", "6", "4", " ">>, <<"i", "6", "4", ":", "1">>}
F32Tokens == {<<"f", "p", "3", "2">>, <<"f", "p", "1", "6">>, <<"b", "f", "1", "6">>}
F64Tokens == {<<"f", "p", "6", "4">>}
SkippedTokens == {<<"1", "0", "2", "4">>, <<"-", "3">>, <<"0", ".", "5">>, <<"n", "u", "l", "l", "o", "p", "t">>, <<>>}
OtherTokens == {<<"i", "1">>}
SigTokens == PointerTokens \cup I32Tokens \cup I64Tokens \cup F32Tokens \cup F64Tokens
                \cup SkippedTokens \cup OtherTokens

RECURSIVE JoinChars(_)
JoinChars(tokens) ==
    IF tokens = <<>> THEN <<>>
    ELSE IF Len(tokens) = 1 THEN tokens[1]
    ELSE tokens[1] \o <<",">> \o JoinChars(Tail(tokens))

Digits == {"0", "1", "2", "3", "4", "5", "6", "7", "8", "9"}
isdigit(c) == c \in Digits

\* std::getline(ss, token, ','): the characters up to the first comma, which
\* is consumed; it fails on a stream with nothing left.
getline(ss) ==
    LET commas == {i \in 1..Len(ss) : ss[i] = ","}
    IN IF commas = {}
       THEN [token |-> ss, ss |-> <<>>]
       ELSE LET c == CHOOSE i \in commas : \A j \in commas : i <= j
            IN [token |-> SubSeq(ss, 1, c - 1), ss |-> SubSeq(ss, c + 1, Len(ss))]

\* token.substr(0, n)
substr0(token, n) == SubSeq(token, 1, IF n < Len(token) THEN n ELSE Len(token))

\* Lines 186-189 and 192: the token without its leading and trailing blanks
\* and tabs; found is false when there is nothing else in it.
trim(token) ==
    LET solid == {i \in 1..Len(token) : token[i] \notin {" ", "\t"}}
    IN IF solid = {} THEN [found |-> FALSE, token |-> <<>>]
       ELSE LET start == CHOOSE i \in solid : \A j \in solid : i <= j
                end == CHOOSE i \in solid : \A j \in solid : i >= j
            IN [found |-> TRUE, token |-> SubSeq(token, start, end)]

\* An is_number that knows no sign.
is_number_unsigned(token) == token # <<>> /\ isdigit(token[1])

\* Lines 198-200.
is_number(token) ==
    /\ token # <<>>
    /\ \/ isdigit(token[1])
       \/ (token[1] = "-" /\ Len(token) > 1 /\ isdigit(token[2]))

\* Lines 203-206: the token up to its first colon.
strip_suffix(token) ==
    LET colons == {i \in 1..Len(token) : token[i] = ":"}
    IN IF colons = {} THEN token
       ELSE SubSeq(token, 1, (CHOOSE i \in colons : \A j \in colons : i <= j) - 1)

\* Lines 210-236: the type of a token; token[0] of an empty string is the
\* terminating null.
type_of(token) ==
    IF token # <<>> /\ token[1] = "*" THEN "POINTER"
    ELSE IF substr0(token, 3) \in {<<"i", "6", "4">>, <<"u", "6", "4">>} THEN "I64"
    ELSE IF substr0(token, 3) \in {<<"i", "3", "2">>, <<"u", "3", "2">>} THEN "I32"
    ELSE IF substr0(token, 4) = <<"f", "p", "6", "4">> \/ substr0(token, 3) = <<"f", "6", "4">>
         THEN "F64"
    ELSE IF substr0(token, 4) = <<"f", "p", "3", "2">> \/ substr0(token, 3) = <<"f", "3", "2">>
         THEN "F32"
    ELSE IF substr0(token, 4) \in {<<"f", "p", "1", "6">>, <<"b", "f", "1", "6">>}
            \/ substr0(token, 3) = <<"f", "1", "6">>
         THEN "F32"
    ELSE "I64"

\* The body of the while loop for one token: the layout with the token's
\* entry appended, or the layout as it is when the token is skipped.
parse_token(layout, raw) ==
    LET t == trim(raw)
    IN IF ~t.found THEN layout
       ELSE IF t.token = <<"n", "u", "l", "l", "o", "p", "t">> THEN layout
       ELSE IF is_number(t.token) THEN layout
       ELSE Append(layout, type_of(strip_suffix(t.token)))

ParseInit ==
    /\ RuntimeInit({}, 0, {"npu"}, {})
    /\ handler = NoHandler
    /\ arg_buffer = NoBuffer
    /\ ctor = NoCtor
    /\ loader = NoLoader
    /\ dims = NoDims
    /\ \E n \in 0..MaxTokens : \E tokens \in [1..n -> SigTokens] :
          parser = [tokens |-> tokens, sig |-> JoinChars(tokens), ss |-> JoinChars(tokens),
                    layout |-> <<>>, stage |-> "loop"]

parserFrame == <<buildVars, handler, arg_buffer, ctor, loader, dims, runtimeVars>>

\* One iteration of while (std::getline(ss, token, ',')).
ParseToken ==
    /\ parser.stage = "loop"
    /\ parser.ss # <<>>
    /\ LET g == getline(parser.ss)
       IN parser' = [parser EXCEPT !.ss = g.ss, !.layout = parse_token(@, g.token)]
    /\ UNCHANGED parserFrame

\* getline fails and the layout is returned.
ParseReturn ==
    /\ parser.stage = "loop"
    /\ parser.ss = <<>>
    /\ parser' = [parser EXCEPT !.stage = "returned"]
    /\ UNCHANGED parserFrame

ParseNext == ParseToken \/ ParseReturn
ParseSpec == ParseInit /\ [][ParseNext]_vars

\* The type the tokens of a class are to get.
ClaimedType(token) ==
    CASE token \in PointerTokens -> "POINTER"
      [] token \in I32Tokens -> "I32"
      [] token \in I64Tokens -> "I64"
      [] token \in F32Tokens -> "F32"
      [] token \in F64Tokens -> "F64"
      [] OTHER -> "any"

\* C29: the layout parse_signature returns has one entry for each token
\* that is neither a numeric literal, nullopt nor empty, in token order:
\* a pointer for a token starting with *, a 32-bit integer for i32/u32, a
\* 64-bit one for i64/u64, fp32 and fp64 as they are, fp32 for fp16/bf16,
\* whatever the :suffix.
C29_LayoutPerToken ==
    parser.stage = "returned" =>
        LET kept == SelectSeq(parser.tokens, LAMBDA t : t \notin SkippedTokens)
        IN /\ Len(parser.layout) = Len(kept)
           /\ \A i \in 1..Len(kept) :
                ClaimedType(kept[i]) # "any" => parser.layout[i] = ClaimedType(kept[i])

\* "-3,*fp32:16" has been parsed to the one pointer entry.
C29_LiteralThenPointer ==
    /\ parser.stage = "returned"
    /\ parser.tokens = <<<<"-", "3">>, <<"*", "f", "p", "3", "2", ":", "1", "6">>>>
    /\ parser.layout = <<"POINTER">>

(***************************************************************************)
(* The dimensions of a launch: TritonKernel::launch_with_signature         *)
(* (triton_kernel_impl.h 92-126) and NpuBackend::launch_kernel             *)
(* (npu_backend.h 264-333).  An unsigned int is its four bytes, the least  *)
(* significant first, so that its arithmetic keeps the 32 bits it has.     *)
(***************************************************************************)
WARP_SIZE == 1

\* The unsigned int of a number below 2^24 times 2^(8 * shift).
U32(n, shift) ==
    [i \in 1..4 |-> IF i <= shift THEN 0
                    ELSE IF i = shift + 1 THEN n % 256
                    ELSE IF i = shift + 2 THEN (n \div 256) % 256
                    ELSE IF i = shift + 3 THEN (n \div 65536) % 256
                    ELSE 0]

RECURSIVE ColumnSum(_, _, _, _)
ColumnSum(a, b, k, i) ==
    IF i > Len(a) THEN 0
    ELSE (IF k + 1 - i \in 1..Len(b) THEN a[i] * b[k + 1 - i] ELSE 0) + ColumnSum(a, b, k, i + 1)

RECURSIVE Propagate(_, _, _, _, _)
Propagate(a, b, k, n, carry) ==
    IF k > n THEN <<>>
    ELSE LET v == ColumnSum(a, b, k, 1) + carry
         IN <<v % 256>> \o Propagate(a, b, k + 1, n, v \div 256)

\* The product of two numbers given by their bytes, in Len(a) + Len(b) bytes.
MulBytes(a, b) == Propagate(a, b, 1, Len(a) + Len(b), 0)

\* unsigned * unsigned: the low 32 bits of the product.
mul_unsigned(a, b) == SubSeq(MulBytes(a, b), 1, 4)

GridSizes == {U32(1, 0), U32(2, 0), U32(3, 0), U32(65535, 0), U32(1, 2), U32(128, 3)}
WarpCounts == {U32(1, 0), U32(4, 0), U32(8, 0)}

GridInit ==
    /\ RuntimeInit({}, 0, {"npu"}, {})
    /\ handler = NoHandler
    /\ arg_buffer = NoBuffer
    /\ ctor = NoCtor
    /\ loader = NoLoader
    /\ parser = NoParser
    /\ \E gx \in GridSizes, gy \in GridSizes, gz \in GridSizes, w \in WarpCounts :
          dims = [grid |-> <<gx, gy, gz>>, num_warps |-> w, stage |-> "launch",
                  passed |-> <<>>, blockNum |-> <<>>]

dimsFrame == <<buildVars, handler, arg_buffer, ctor, loader, parser, runtimeVars>>

\* launch_with_signature: the block dimensions, and the call of
\* Backend::launch_kernel with them and the grid.
LaunchWithSignature ==
    /\ dims.stage = "launch"
    /\ LET block_x == mul_unsigned(dims.num_warps, U32(WARP_SIZE, 0))
           block_y == U32(1, 0)
           block_z == U32(1, 0)
       IN dims' = [dims EXCEPT !.stage = "backend",
                               !.passed = [grid |-> dims.grid,
                                           block |-> <<block_x, block_y, block_z>>]]
    /\ UNCHANGED dimsFrame

\* uint32_t blockNum = grid_x * grid_y * grid_z;
BlockNum ==
    /\ dims.stage = "backend"
    /\ dims' = [dims EXCEPT !.stage = "counted",
                            !.blockNum = mul_unsigned(mul_unsigned(dims.passed.grid[1],
                                                                   dims.passed.grid[2]),
                                                      dims.passed.grid[3])]
    /\ UNCHANGED dimsFrame

\* rtKernelLaunch(kernel, blockNum, ...)
RtLaunchBlocks ==
    /\ dims.stage = "counted"
    /\ dims' = [dims EXCEPT !.stage = "driver"]
    /\ UNCHANGED dimsFrame

GridNext == LaunchWithSignature \/ BlockNum \/ RtLaunchBlocks
GridSpec == GridInit /\ [][GridNext]_vars

\* Two numbers given by their bytes are the same number.
SameNumber(a, b) ==
    \A i \in 1..(IF Len(a) > Len(b) THEN Len(a) ELSE Len(b)) :
        (IF i <= Len(a) THEN a[i] ELSE 0) = (IF i <= Len(b) THEN b[i] ELSE 0)

\* C30: the backend is passed the caller's grid and the block dimensions
\* (num_warps * warp size, 1, 1), and the block count the NPU driver is
\* handed is the product grid_x * grid_y * grid_z, also when that product
\* does not fit in 32 bits.
C30_BlockCountIsProduct ==
    dims.stage = "driver" =>
        /\ dims.passed.grid = dims.grid
        /\ SameNumber(dims.passed.block[1], MulBytes(dims.num_warps, U32(WARP_SIZE, 0)))
        /\ dims.passed.block[2] = U32(1, 0)
        /\ dims.passed.block[3] = U32(1, 0)
        /\ SameNumber(dims.blockNum, MulBytes(MulBytes(dims.grid[1], dims.grid[2]), dims.grid[3]))

\* The grid (65536, 65536, 1) has reached the driver as a block count of 0.
C30_BlockCountWrapped ==
    /\ dims.stage = "driver"
    /\ dims.grid = <<U32(1, 2), U32(1, 2), U32(1, 0)>>
    /\ dims.blockNum = U32(0, 0)

\* The dimensions are passed on as they are for every grid.
C30_DimensionsPassed ==
    dims.stage \in {"backend", "counted", "driver"} =>
        /\ dims.passed.grid = dims.grid
        /\ dims.passed.block = <<dims.num_warps, U32(1, 0), U32(1, 0)>>

(***************************************************************************)
(* NpuBackend::load_kernel on its own (npu_backend.h 377-543), one action  *)
(* per stage, with the files' contents and the driver's answers drawn from *)
(* small sets.  cache_mutex_ is held from the lookup to the return.        *)
(***************************************************************************)
NpuDirs == {"cache/a", "cache/b"}

NotFoundError == "Kernel binary not found"
InvalidSizeError == "Invalid binary size"
ReadError == "Failed to read binary"
SetDeviceError == "rtSetDevice failed"
BinaryRegisterError == "rtDevBinaryRegister failed"
FunctionRegisterError == "rtFunctionRegister failed"

\* The metadata file: whether it opens, whether it has "shared", and the
\* number it gives.
MetaFiles == [open : BOOLEAN, has_shared : BOOLEAN, shared : {-1, 0, 1024}]
\* The binary file: whether one of the four names opens, what tellg
\* answers and whether the read succeeds.
BinFiles == [found : BOOLEAN, size : {-1, 0, 64}, read_ok : BOOLEAN]

\* An int stored in an unsigned int: its four bytes in two's complement.
unsigned_of_int(i) == [k \in 1..4 |-> (i \div (256 ^ (k - 1))) % 256]

\* Lines 395-402: metadata.shared for a metadata file.
npu_metadata_shared(file) ==
    unsigned_of_int(IF file.open /\ file.has_shared THEN file.shared ELSE 0)

NpuLoader == [stage |-> "idle", calls |-> 0, err |-> "", dir |-> None, ret |-> None,
              file |-> [open |-> FALSE, has_shared |-> FALSE, shared |-> 0],
              bin |-> [found |-> FALSE, size |-> 0, read_ok |-> FALSE],
              shared |-> unsigned_of_int(0), stub |-> None,
              entry |-> [module_cache_ |-> EmptyMap, registered_names_ |-> 0,
                         func_stubs_ |-> {}]]

NpuLoadInit ==
    /\ RuntimeInit({}, 0, {"npu"}, {})
    /\ handler = NoHandler
    /\ arg_buffer = NoBuffer
    /\ ctor = NoCtor
    /\ parser = NoParser
    /\ dims = NoDims
    /\ loader = NpuLoader

npuFrame == <<buildVars, handler, arg_buffer, ctor, parser, dims, functions_, overloads_, heap,
              pc, loc, budget, last, gil, countVars>>

NpuThrow(l, err) ==
    /\ loader' = [l EXCEPT !.stage = "thrown", !.err = err]
    /\ cache_mutex_' = None

NpuStage(l, stage) ==
    /\ loader' = [l EXCEPT !.stage = stage]
    /\ UNCHANGED cache_mutex_

\* Lines 381-389: the lock is taken and the cache looked up; a hit returns
\* the cached function handle.  entry is the registry as the call found it.
NpuLoadKernelFind(dir) ==
    /\ loader.stage \in {"idle", "returned", "thrown"}
    /\ loader.calls < MaxLoads
    /\ cache_mutex_ = None
    /\ LET l == [NpuLoader EXCEPT !.calls = loader.calls + 1, !.dir = dir,
                                  !.entry = [module_cache_ |-> module_cache_,
                                             registered_names_ |-> registered_names_,
                                             func_stubs_ |-> func_stubs_]]
       IN IF dir \in DOMAIN module_cache_
          THEN /\ loader' = [l EXCEPT !.stage = "returned", !.ret = module_cache_[dir].fn]
               /\ UNCHANGED cache_mutex_
          ELSE /\ loader' = [l EXCEPT !.stage = "metadata"]
               /\ cache_mutex_' = "t1"
    /\ UNCHANGED <<npuFrame, backendVars>>

\* Lines 391-447: the metadata, with its defaults when the file is absent.
NpuReadMetadata(file) ==
    /\ loader.stage = "metadata"
    /\ NpuStage([loader EXCEPT !.file = file, !.shared = npu_metadata_shared(file)], "binary")
    /\ UNCHANGED <<npuFrame, backendVars>>

\* Lines 449-488: the binary file is found, measured and read.
NpuReadBinary(bin) ==
    /\ loader.stage = "binary"
    /\ LET l == [loader EXCEPT !.bin = bin]
       IN IF ~bin.found THEN NpuThrow(l, NotFoundError)
          ELSE IF bin.size <= 0 THEN NpuThrow(l, InvalidSizeError)
          ELSE IF ~bin.read_ok THEN NpuThrow(l, ReadError)
          ELSE NpuStage(l, "device")
    /\ UNCHANGED <<npuFrame, backendVars>>

\* Lines 490-502: rtSetDevice on the current device.
NpuSetDevice(ok) ==
    /\ loader.stage = "device"
    /\ IF ok THEN NpuStage(loader, "binary_register") ELSE NpuThrow(loader, SetDeviceError)
    /\ UNCHANGED <<npuFrame, backendVars>>

\* Lines 504-518: rtDevBinaryRegister.
NpuBinaryRegister(ok) ==
    /\ loader.stage = "binary_register"
    /\ IF ok
       THEN /\ driver' = Inc(driver, loader.dir)
            /\ NpuStage(loader, "function_register")
       ELSE /\ NpuThrow(loader, BinaryRegisterError)
            /\ UNCHANGED driver
    /\ UNCHANGED <<npuFrame, module_cache_, registered_names_, func_stubs_>>

\* A stub name that does not move the counter on.
StubRegistryStale(stubName) ==
    [registered_names_ |-> registered_names_, func_stubs_ |-> func_stubs_ \cup {stubName}]

\* Lines 520-526: the counter is moved on and the stub emplaced.
StubRegistry(stubName) ==
    [registered_names_ |-> registered_names_ + 1, func_stubs_ |-> func_stubs_ \cup {stubName}]

\* Lines 520-537: the stub is named and stored, then rtFunctionRegister.
NpuFunctionRegister(ok) ==
    /\ loader.stage = "function_register"
    /\ LET stubName == StubName(registered_names_)
           r == StubRegistry(stubName)
           l == [loader EXCEPT !.stub = stubName]
       IN /\ registered_names_' = r.registered_names_
          /\ func_stubs_' = r.func_stubs_
          /\ IF ok THEN NpuStage(l, "cache") ELSE NpuThrow(l, FunctionRegisterError)
    /\ UNCHANGED <<npuFrame, module_cache_, driver>>

\* Lines 539-542: the module is cached and the stub handle returned.
NpuCacheModule ==
    /\ loader.stage = "cache"
    /\ module_cache_' = Put(module_cache_, loader.dir,
                            [module |-> Module(loader.dir, Count(driver, loader.dir)),
                             fn |-> loader.stub, layout |-> FALSE, shared |-> loader.shared])
    /\ loader' = [loader EXCEPT !.stage = "returned", !.ret = loader.stub]
    /\ cache_mutex_' = None
    /\ UNCHANGED <<npuFrame, registered_names_, func_stubs_, driver>>

NpuLoadNext ==
    \/ \E dir \in NpuDirs : NpuLoadKernelFind(dir)
    \/ \E file \in MetaFiles : NpuReadMetadata(file)
    \/ \E bin \in BinFiles : NpuReadBinary(bin)
    \/ \E ok \in BOOLEAN : NpuSetDevice(ok)
    \/ \E ok \in BOOLEAN : NpuBinaryRegister(ok)
    \/ \E ok \in BOOLEAN : NpuFunctionRegister(ok)
    \/ NpuCacheModule
NpuLoadSpec == NpuLoadInit /\ [][NpuLoadNext]_vars

\* C31: load_kernel never gets as far as caching an artifact whose metadata
\* gives a negative shared-memory value or whose binary file is empty: it
\* has thrown before.
C31_BadArtifactRejected ==
    loader.stage = "cache" =>
        /\ ~(loader.file.open /\ loader.file.has_shared /\ loader.file.shared < 0)
        /\ loader.bin.size > 0

\* An artifact with "shared": -1 is in the module cache with a shared-memory
\* size of 4294967295.
C31_NegativeSharedLoaded ==
    /\ loader.stage = "returned"
    /\ loader.file.shared = -1
    /\ loader.dir \in DOMAIN module_cache_
    /\ module_cache_[loader.dir].shared = <<255, 255, 255, 255>>

\* An empty binary file is refused.
C31_EmptyBinaryRefused ==
    (loader.stage \in {"device", "binary_register", "function_register", "cache"}) =>
        loader.bin.size > 0

\* The dynamic signatures of the packs called with.
PackSignatures == {RawCall(pack).sig : pack \in Packs}

\* C32: different (dyn_signature, device_index) pairs have different keys,
\* a call looks up the key of its own pair, and every key in overloads_ has
\* a compilation and a Kernel Handle of its own.
C32_OwnEntryPerPair ==
    /\ \A s1 \in PackSignatures, s2 \in PackSignatures, d1 \in Devices, d2 \in Devices :
         (s1 # s2 \/ d1 # d2) => OverloadKey(s1, d1) # OverloadKey(s2, d2)
    /\ \A t \in Threads : loc[t].key # None => loc[t].key = OverloadKey(loc[t].sig, loc[t].dev)
    /\ \A k \in DOMAIN overloads_ : Count(compiles, k) >= 1
    /\ \A k1 \in DOMAIN overloads_, k2 \in DOMAIN overloads_ :
         k1 # k2 => overloads_[k1].addr # overloads_[k2].addr

\* Three calls installed three handles: two for signatures that differ in
\* the :16 suffix only, and two for one signature on two devices.
C32_SuffixAndDeviceApart ==
    LET a == RawCall(PackAligned).sig
        u == RawCall(PackUnaligned).sig
    IN /\ DOMAIN overloads_ = {OverloadKey(a, 0), OverloadKey(u, 0), OverloadKey(a, 1)}
       /\ \A k \in DOMAIN overloads_ : Count(compiles, k) = 1
       /\ Cardinality({overloads_[k].addr : k \in DOMAIN overloads_}) = 3

\* C33: on the NPU backend a registration names its stub as no earlier one
\* did, the stub counter never decreases, no stub leaves the registry, and
\* every function handle in module_cache_ is a stub the registry holds.
C33_StubsUniqueAndLive ==
    /\ [](\A dir \in DOMAIN module_cache_ : module_cache_[dir].fn \in func_stubs_)
    /\ [][/\ registered_names_' >= registered_names_
          /\ func_stubs_ \subseteq func_stubs_'
          /\ (loader.stage = "function_register" => loader'.stub \notin func_stubs_)]_vars

\* Two artifacts are cached with two different stubs.
C33_TwoStubsRegistered ==
    /\ DOMAIN module_cache_ = NpuDirs
    /\ module_cache_["cache/a"].fn # module_cache_["cache/b"].fn
    /\ registered_names_ = 2

\* C39: when an NPU load_kernel has failed, module_cache_, the stub counter
\* and the stub table are as they were when the call began.
C39_FailedLoadLeavesRegistry ==
    loader.stage = "thrown" =>
        /\ module_cache_ = loader.entry.module_cache_
        /\ registered_names_ = loader.entry.registered_names_
        /\ func_stubs_ = loader.entry.func_stubs_

\* rtFunctionRegister failed on the first load: nothing is cached, and the
\* counter is at 1 and stub_0 is in the table.
C39_StubLeftBehind ==
    /\ loader.stage = "thrown"
    /\ loader.err = FunctionRegisterError
    /\ module_cache_ = EmptyMap
    /\ registered_names_ = 1
    /\ func_stubs_ = {StubName(0)}

\* A failed rtDevBinaryRegister, and every failure before it, leaves the
\* registry as it was.
C39_EarlyFailureLeavesRegistry ==
    (loader.stage = "thrown" /\ loader.err # FunctionRegisterError) =>
        /\ module_cache_ = loader.entry.module_cache_
        /\ registered_names_ = loader.entry.registered_names_
        /\ func_stubs_ = loader.entry.func_stubs_

\* C34: no step of operator(), launch_with_raw_args or get_kernel changes
\* the entry point's source path, entry name or Static Signature; a key in
\* overloads_ stays there with the handle object it has, and an entry of the
\* backend's module cache stays as it is.
C34_EntriesOnlyAdded ==
    [][/\ entry_point' = entry_point
       /\ \A k \in DOMAIN overloads_ :
            /\ k \in DOMAIN overloads_'
            /\ overloads_'[k].addr = overloads_[k].addr
            /\ overloads_'[k].dir = overloads_[k].dir
       /\ \A d \in DOMAIN module_cache_ :
            /\ d \in DOMAIN module_cache_'
            /\ module_cache_'[d] = module_cache_[d]]_vars

\* Two callers compiled for one key; the second emplace found the key
\* taken, and the first caller's handle and module are in place.
C34_SecondEmplaceRefused ==
    /\ last["t2"].err = "Unable to emplace"
    /\ last["t1"].err = ""
    /\ "launch_kernel" \in last["t1"].steps
    /\ last["t1"].key \in DOMAIN overloads_
    /\ overloads_[last["t1"].key].addr = last["t1"].h
    /\ DOMAIN module_cache_ # {}

\* One thread calling with the same arguments and different num_warps and
\* num_stages.
WarpChoices == {<<8, 3>>, <<4, 2>>}
WarpInit == InitWith({"t1"}, MaxCalls + 1, Backends, {FnKey})
WarpNext ==
    \/ CallStep("t1", {PackAligned})
    \/ \E w \in WarpChoices : OperatorCall("t1", PackAligned, w[1], w[2])
WarpSpec == WarpInit /\ [][WarpNext]_vars

\* C35: the artifact a call launches is the one compile_a_kernel gives for
\* the call's own signature, num_warps, num_stages and device.
C35_LaunchedWithOwnWarps ==
    \A t \in Threads :
        pc[t] = "launch_kernel" =>
            Kernel(t).dir = ArtifactDir(loc[t].sig, loc[t].num_warps, loc[t].num_stages,
                                        loc[t].dev)

\* A call with 8 warps is about to launch the artifact an earlier call
\* compiled for 4 warps.
C35_OtherWarpsLaunched ==
    /\ pc["t1"] = "launch_kernel"
    /\ loc["t1"].num_warps = 8
    /\ Kernel("t1").dir = ArtifactDir(loc["t1"].sig, 4, 3, loc["t1"].dev)
    /\ Count(compiles, loc["t1"].key) = 1

\* C38: the module whose function a call launches on device d was loaded
\* while d was the current device.
C38_HandleOfOwnDevice ==
    \A t \in Threads :
        (pc[t] = "launch_kernel" /\ Kernel(t).dir \in DOMAIN module_cache_) =>
            module_cache_[Kernel(t).dir].device = loc[t].dev

\* A call on device 1 is about to launch the function of the module an
\* earlier call loaded on device 0.
C38_OtherDevicesModule ==
    /\ pc["t1"] = "launch_kernel"
    /\ loc["t1"].dev = 1
    /\ Kernel("t1").dir \in DOMAIN module_cache_
    /\ module_cache_[Kernel("t1").dir].device = 0
    /\ Kernel("t1").kernel_handle_ = module_cache_[Kernel("t1").dir].fn

\* C36: when the scratch pointer has been pushed and launch is called, no
\* more elements have been pushed to data_pointers than num_args, the
\* capacity reserved for it, and every kernel_args slot made for a tensor or
\* for the scratch refers to an element data_pointers holds.
C36_SlotsStayLive ==
    handler.item = Scratch =>
        /\ Len(handler.h.data_pointers) <= handler.ssig.num_args
        /\ DanglingSlots(handler.h, handler.capacity) = {}

\* Two tensors for two parameters and a capacity of two: the push of the
\* scratch pointer moved the elements the two tensor slots point at.
C36_ScratchPushRelocates ==
    /\ handler.item = Scratch
    /\ handler.ssig.num_args = 2
    /\ handler.capacity = 2
    /\ Len(handler.h.data_pointers) = 3
    /\ DanglingSlots(handler.h, handler.capacity) = {1, 2}

(***************************************************************************)
(* The classifier's signature as NpuBackend::launch_kernel parses it when  *)
(* the metadata has no arg_layout (npu_backend.h 293-297).                 *)
(***************************************************************************)
\* The characters of a token of the classifier.
Spell(token) ==
    CASE token = "*fp32" -> <<"*", "f", "p", "3", "2">>
      [] token = "*fp32:16" -> <<"*", "f", "p", "3", "2", ":", "1", "6">>
      [] token = "i64" -> <<"i", "6", "4">>
      [] token = "i64:1" -> <<"i", "6", "4", ":", "1">>
      [] token = "i64:i32" -> <<"i", "6", "4", ":", "i", "3", "2">>
      [] token = "i32" -> <<"i", "3", "2">>
      [] token = "i32:1" -> <<"i", "3", "2", ":", "1">>
      [] token = "i32:i32" -> <<"i", "3", "2", ":", "i", "3", "2">>
      [] token = "i1" -> <<"i", "1">>
      [] token = "i1:1" -> <<"i", "1", ":", "1">>
      [] token = "i1:i32" -> <<"i", "1", ":", "i", "3", "2">>
      [] token = "u64" -> <<"u", "6", "4">>
      [] token = "u64:1" -> <<"u", "6", "4", ":", "1">>
      [] token = "u64:i32" -> <<"u", "6", "4", ":", "i", "3", "2">>
      [] token = "fp32" -> <<"f", "p", "3", "2">>
      [] token = "fp32:1" -> <<"f", "p", "3", "2", ":", "1">>
      [] token = "fp32:i32" -> <<"f", "p", "3", "2", ":", "i", "3", "2">>
      [] token = "fp64" -> <<"f", "p", "6", "4">>
      [] token = "fp64:1" -> <<"f", "p", "6", "4", ":", "1">>
      [] token = "fp64:i32" -> <<"f", "p", "6", "4", ":", "i", "3", "2">>
      [] token = "0" -> <<"0">>
      [] token = "1" -> <<"1">>
      [] token = "7" -> <<"7">>
      [] token = "true" -> <<"t", "r", "u", "e">>
      [] token = "false" -> <<"f", "a", "l", "s", "e">>
      [] token = "nullopt" -> <<"n", "u", "l", "l", "o", "p", "t">>

\* The characters of full_signature: the tokens of the signature vector
\* with "," between them.
SpellSignature(signature) == JoinChars([i \in 1..Len(signature) |-> Spell(signature[i])])

\* parse_signature: the while loop from a stream position and a layout on.
RECURSIVE parse_loop(_, _)
parse_loop(ss, layout) ==
    IF ss = <<>> THEN layout
    ELSE LET g == getline(ss)
         IN parse_loop(g.ss, parse_token(layout, g.token))

parse_signature(sig) == parse_loop(sig, <<>>)

\* C37: the layout parse_signature derives from the classifier's signature
\* has one entry for each user payload slot, in order: as many entries as
\* slots before the scratch slot, a pointer entry exactly where the slot
\* points at a tensor's data pointer.
C37_LayoutMatchesSlots ==
    handler.item = Scratch =>
        LET layout == parse_signature(SpellSignature(handler.h.signature))
            slots == SubSeq(handler.h.kernel_args, 1, Len(handler.h.kernel_args) - 1)
        IN /\ Len(layout) = Len(slots)
           /\ \A i \in 1..Len(slots) :
                (layout[i] = "POINTER") <=> (slots[i].to = "data_pointers")

\* A tensor and a SPECIALIZED i64 equal to 1: the token i64:1 gets a layout
\* entry and the integer has no slot.
C37_EntryWithoutSlot ==
    /\ handler.item = Scratch
    /\ handler.h.signature = <<"*fp32:16", "i64:1">>
    /\ Len(handler.h.kernel_args) = 2
    /\ parse_signature(SpellSignature(handler.h.signature)) = <<"POINTER", "I64">>

\* A CONSTEXPR boolean is printed as true, which is no numeric literal for
\* parse_signature: it gets a layout entry.
C37_BooleanLiteralEntry ==
    /\ handler.item = Scratch
    /\ handler.h.signature = <<"*fp32:16", "true">>
    /\ Len(handler.h.kernel_args) = 2
    /\ parse_signature(SpellSignature(handler.h.signature)) = <<"POINTER", "I64">>

(***************************************************************************)
(* An NpuArgBuffer (npu_backend.h 84-166) under any sequence of calls of   *)
(* its public methods.                                                     *)
(***************************************************************************)
MaxOps == 3

\* The estimated_user_args the buffer is constructed with.
Estimates == {0, 16, 64}
\* The layouts and argument arrays push_args_from_layout is called with.
OpLayouts == UNION {[1..n -> NpuArgTypes] : n \in 0..2}

OpsInit ==
    /\ RuntimeInit({}, 0, {"npu"}, {})
    /\ handler = NoHandler
    /\ ctor = NoCtor
    /\ loader = NoLoader
    /\ parser = NoParser
    /\ dims = NoDims
    /\ \E e \in Estimates :
          arg_buffer = [stage |-> "ops", calls |-> 0, estimated |-> e, buf |-> NewArgBuffer(e)]

\* One call of a method, which leaves the buffer b.
OpsCall(b) ==
    /\ arg_buffer.stage = "ops"
    /\ arg_buffer.calls < MaxOps
    /\ arg_buffer' = [arg_buffer EXCEPT !.calls = @ + 1, !.buf = b]
    /\ UNCHANGED <<buildVars, handler, ctor, loader, parser, dims, runtimeVars>>

OpSetSystemArgs == OpsCall(set_system_args(arg_buffer.buf, FftsAddr, 0, 0))
OpPushArg(size) == OpsCall(push_arg(arg_buffer.buf, size, 100))
OpPushArgByType(arg_ptr, type) == OpsCall(push_arg_by_type(arg_buffer.buf, arg_ptr, type))
OpPushArgsFromLayout(args, layout) ==
    OpsCall(push_args_from_layout(arg_buffer.buf, args, layout, 1))
OpSetGrid(grid) == OpsCall(set_grid(arg_buffer.buf, grid[1], grid[2], grid[3]))

OpsNext ==
    \/ OpSetSystemArgs
    \/ \E size \in {1, 4, 8} : OpPushArg(size)
    \/ \E arg_ptr \in {NullPtr, PtrTo(100)}, type \in NpuArgTypes : OpPushArgByType(arg_ptr, type)
    \/ \E layout \in OpLayouts : \E args \in ArgArrays(Len(layout)) :
          OpPushArgsFromLayout(args, layout)
    \/ \E grid \in Grids : OpSetGrid(grid)
OpsSpec == OpsInit /\ [][OpsNext]_vars

\* C40: whatever methods have been called, the cursor is at least 24 and at
\* most the size of the buffer, every write made lies inside the buffer, and
\* no call moves the cursor back.
C40_CursorInsideBuffer ==
    /\ [](arg_buffer.stage = "ops" =>
            /\ arg_buffer.buf.cursor_ >= 24
            /\ arg_buffer.buf.cursor_ <= arg_buffer.buf.buffer_size
            /\ \A w \in arg_buffer.buf.buffer_ :
                 w.off >= 0 /\ w.off + w.size <= arg_buffer.buf.buffer_size)
    /\ [][arg_buffer'.buf.cursor_ >= arg_buffer.buf.cursor_]_vars

\* A buffer constructed for no user arguments (40 bytes) has grown: three
\* calls have moved the cursor beyond its first size.
C40_BufferGrown ==
    /\ arg_buffer.stage = "ops"
    /\ arg_buffer.estimated = 0
    /\ arg_buffer.calls = 3
    /\ arg_buffer.buf.cursor_ > 40
    /\ arg_buffer.buf.buffer_size >= arg_buffer.buf.cursor_
====
